---- MODULE Spec2Model ----
(***************************************************************************)
(* Model of semantic_tag_increment: the SemanticVersion parser/comparator  *)
(* (parser.py), the VersionIncrementer engine (incrementer.py) and the     *)
(* runs of the command (cli_interface.py, github_actions.py).              *)
(*                                                                         *)
(* A Python str is a sequence of one-character strings, so that parsing,   *)
(* formatting, normalisation and ASCII ordering are computed character by  *)
(* character.  None is the one-element sequence <<"None">>, which is no    *)
(* string of characters.                                                   *)
(***************************************************************************)
EXTENDS Integers, Sequences, FiniteSets, TLC

VARIABLES
    existing_tags,          \* VersionIncrementer.existing_tags
    preserve_metadata,      \* VersionIncrementer.preserve_metadata
    normalized_tags_cache,  \* VersionIncrementer._normalized_tags_cache
    arg_version,            \* the caller's current version
    arg_increment_type,     \* the caller's IncrementType
    arg_prerelease_type,    \* the caller's pre-release label, or None
    call,                   \* the last method called on the engine
    result,                 \* what that call returned or raised
    probes,                 \* number of _version_exists calls it made
    builds,                 \* number of times it built the normalized tags
    version_string,         \* argument of the last SemanticVersion.parse
    parsed,                 \* what that parse returned or raised
    formatted,              \* to_string(include_prefix=True) of the parsed version
    numeric_prerelease_components,
                            \* find_numeric_prerelease_components() of it
    operands,               \* three versions handed to compare_precedence
    precedence,             \* compare_precedence of every ordered pair of operands
    inputs,                 \* what a run of the command was given
    pc,                     \* the step that run is at
    events,                 \* the steps that run has taken, in order
    determined,             \* what determine_increment_type returned or raised
    report                  \* what the run wrote out: the versions or an error

vars == <<existing_tags, preserve_metadata, normalized_tags_cache, arg_version,
          arg_increment_type, arg_prerelease_type, call, result, probes,
          builds, version_string, parsed, formatted,
          numeric_prerelease_components, operands, precedence, inputs, pc, events, determined, report>>

engine_vars == <<existing_tags, preserve_metadata, normalized_tags_cache,
                 arg_version, arg_increment_type, arg_prerelease_type, call,
                 result, probes, builds>>
parser_vars == <<version_string, parsed, formatted,
                 numeric_prerelease_components>>
compare_vars == <<operands, precedence>>
entry_vars == <<inputs, pc, events, determined, report>>

-----------------------------------------------------------------------------
(* Characters and Python str primitives *)

None == <<"None">>

\* The characters of the model in ASCII code-point order (whitespace, the
\* punctuation of the grammar, digits, letters); a character's index gives
\* its relative ordinal.
Ascii ==
    <<"\t", "\n", "\r", " ", "!", "+", "-", ".", "/",
      "0", "1", "2", "3", "4", "5", "6", "7", "8", "9",
      "A", "B", "C", "D", "E", "F", "G", "H", "I", "J", "K", "L", "M",
      "N", "O", "P", "Q", "R", "S", "T", "U", "V", "W", "X", "Y", "Z",
      "_",
      "a", "b", "c", "d", "e", "f", "g", "h", "i", "j", "k", "l", "m",
      "n", "o", "p", "q", "r", "s", "t", "u", "v", "w", "x", "y", "z",
      "~">>

Chars == {Ascii[i] : i \in 1..Len(Ascii)}

Ord == [c \in Chars |-> CHOOSE i \in 1..Len(Ascii) : Ascii[i] = c]

Digits == {"0", "1", "2", "3", "4", "5", "6", "7", "8", "9"}

Upper == {c \in Chars : Ord[c] >= Ord["A"] /\ Ord[c] <= Ord["Z"]}

LowerAlpha == {c \in Chars : Ord[c] >= Ord["a"] /\ Ord[c] <= Ord["z"]}

Whitespace == {"\t", "\n", "\r", " "}

\* [0-9a-zA-Z-]
IdentChars == Digits \cup Upper \cup LowerAlpha \cup {"-"}

\* str.lower() of one character
LowerChar ==
    [c \in Chars |->
        IF c \in Upper
        THEN CHOOSE d \in LowerAlpha : Ord[d] - Ord["a"] = Ord[c] - Ord["A"]
        ELSE c]

lower(s) == [i \in 1..Len(s) |-> LowerChar[s[i]]]

\* str.isdigit()
isdigit(s) == Len(s) > 0 /\ \A i \in 1..Len(s) : s[i] \in Digits

\* int(s) for a string of decimal digits
RECURSIVE int(_)
int(s) ==
    IF Len(s) = 0 THEN 0
    ELSE 10 * int(SubSeq(s, 1, Len(s) - 1)) + (Ord[s[Len(s)]] - Ord["0"])

DigitChar(d) == CHOOSE c \in Digits : Ord[c] - Ord["0"] = d

\* str(n) for n >= 0
RECURSIVE str(_)
str(n) ==
    IF n < 10 THEN <<DigitChar(n)>>
    ELSE Append(str(n \div 10), DigitChar(n % 10))

\* least index in first..last at which s holds a character of set, 0 when
\* there is none
first_in(s, set, first, last) ==
    IF \E i \in first..last : s[i] \in set
    THEN CHOOSE i \in first..last :
             s[i] \in set /\ \A j \in first..(i - 1) : s[j] \notin set
    ELSE 0

\* greatest index in first..last at which s holds a character of set, 0 when
\* there is none
last_in(s, set, first, last) ==
    IF \E i \in first..last : s[i] \in set
    THEN CHOOSE i \in first..last :
             s[i] \in set /\ \A j \in (i + 1)..last : s[j] \notin set
    ELSE 0

\* s.find(ch, start): least index >= start holding ch (1-based), 0 when absent
find(s, ch, start) == first_in(s, {ch}, start, Len(s))

\* s.split(ch)
RECURSIVE split(_, _)
split(s, ch) ==
    LET i == find(s, ch, 1)
    IN  IF i = 0 THEN <<s>>
        ELSE <<SubSeq(s, 1, i - 1)>> \o split(SubSeq(s, i + 1, Len(s)), ch)

\* sep.join(parts)
RECURSIVE join(_, _)
join(parts, sep) ==
    IF Len(parts) = 0 THEN <<>>
    ELSE IF Len(parts) = 1 THEN parts[1]
    ELSE parts[1] \o sep \o join(Tail(parts), sep)

\* s.strip(): s from its first to its last character that is no whitespace
strip(s) ==
    LET first == first_in(s, Chars \ Whitespace, 1, Len(s))
        last == last_in(s, Chars \ Whitespace, 1, Len(s))
    IN  IF first = 0 THEN <<>> ELSE SubSeq(s, first, last)

\* s1 < s2 on Python str: lexicographic by code point, a proper prefix is less
RECURSIVE str_lt(_, _)
str_lt(s1, s2) ==
    IF Len(s2) = 0 THEN FALSE
    ELSE IF Len(s1) = 0 THEN TRUE
    ELSE IF Ord[s1[1]] < Ord[s2[1]] THEN TRUE
    ELSE IF Ord[s1[1]] > Ord[s2[1]] THEN FALSE
    ELSE str_lt(Tail(s1), Tail(s2))

\* length of the trailing run of digits of s (the match of \d+$)
RECURSIVE trailing_digits(_)
trailing_digits(s) ==
    IF Len(s) > 0 /\ s[Len(s)] \in Digits
    THEN 1 + trailing_digits(SubSeq(s, 1, Len(s) - 1))
    ELSE 0

-----------------------------------------------------------------------------
(* parser.py: SemanticVersion *)

MAX_VERSION_LENGTH == 1000

SemanticVersion(major, minor, patch, prerelease, metadata, prefix) ==
    [major |-> major, minor |-> minor, patch |-> patch,
     prerelease |-> prerelease, metadata |-> metadata, prefix |-> prefix]

\* 0|[1-9]\d*
NumericField(s) ==
    /\ isdigit(s)
    /\ (Len(s) > 1 => s[1] # "0")

\* [0-9a-zA-Z-]+(?:\.[0-9a-zA-Z-]+)*
Identifiers(s) ==
    LET ids == split(s, ".")
    IN  \A k \in 1..Len(ids) :
            /\ Len(ids[k]) > 0
            /\ \A i \in 1..Len(ids[k]) : ids[k][i] \in IdentChars

\* SEMVER_PATTERN.match(s): the groups of the match, or no match.
\* The core and the pre-release hold no "+", so the first "+" starts the
\* metadata; the core holds no "-", so the first "-" before it starts the
\* pre-release.
SEMVER_PATTERN_match(s) ==
    LET hasPrefix == Len(s) > 0 /\ s[1] \in {"v", "V"}
        prefix == IF hasPrefix THEN <<s[1]>> ELSE None
        body == IF hasPrefix THEN Tail(s) ELSE s
        plus == find(body, "+", 1)
        metadata == IF plus = 0 THEN None ELSE SubSeq(body, plus + 1, Len(body))
        front == IF plus = 0 THEN body ELSE SubSeq(body, 1, plus - 1)
        dash == find(front, "-", 1)
        prerelease == IF dash = 0 THEN None ELSE SubSeq(front, dash + 1, Len(front))
        core == IF dash = 0 THEN front ELSE SubSeq(front, 1, dash - 1)
        fields == split(core, ".")
    IN  IF /\ Len(fields) = 3
           /\ \A k \in 1..3 : NumericField(fields[k])
           /\ (prerelease # None => Identifiers(prerelease))
           /\ (metadata # None => Identifiers(metadata))
        THEN [match |-> TRUE, prefix |-> prefix, major |-> fields[1],
              minor |-> fields[2], patch |-> fields[3],
              prerelease |-> prerelease, metadata |-> metadata]
        ELSE [match |-> FALSE]

\* parse with the pattern applied before the length is looked at
parse_match_first(s) ==
    IF s = None \/ Len(s) = 0
    THEN [status |-> "raised", error |-> "ValueError", matched |-> FALSE]
    ELSE LET groups == SEMVER_PATTERN_match(strip(s))
         IN  IF Len(s) > MAX_VERSION_LENGTH
             THEN [status |-> "raised", error |-> "SecurityError",
                   matched |-> TRUE]
             ELSE IF ~groups.match
             THEN [status |-> "raised", error |-> "ParseError", matched |-> TRUE]
             ELSE [status |-> "returned", matched |-> TRUE,
                   version |->
                       SemanticVersion(
                           int(groups.major), int(groups.minor),
                           int(groups.patch), groups.prerelease,
                           groups.metadata,
                           IF groups.prefix = None THEN <<>> ELSE groups.prefix)]

\* SemanticVersion.parse: the version, or the exception raised.  matched tells
\* whether SEMVER_PATTERN.match was applied to the input.
parse(s) ==
    IF s = None \/ Len(s) = 0
    THEN [status |-> "raised", error |-> "ValueError", matched |-> FALSE]
    ELSE IF Len(s) > MAX_VERSION_LENGTH
    THEN [status |-> "raised", error |-> "SecurityError", matched |-> FALSE]
    ELSE LET stripped_version == strip(s)
         IN  IF Len(stripped_version) > MAX_VERSION_LENGTH
             THEN [status |-> "raised", error |-> "SecurityError", matched |-> FALSE]
             ELSE LET groups == SEMVER_PATTERN_match(stripped_version)
                  IN  IF ~groups.match
                      THEN [status |-> "raised", error |-> "ParseError",
                            matched |-> TRUE]
                      ELSE [status |-> "returned", matched |-> TRUE,
                            version |->
                                SemanticVersion(
                                    int(groups.major), int(groups.minor),
                                    int(groups.patch), groups.prerelease,
                                    groups.metadata,
                                    IF groups.prefix = None THEN <<>>
                                    ELSE groups.prefix)]

\* class ParseError(ValueError, SemanticVersionError); SecurityError derives
\* from SemanticVersionError only.
ValueErrorFamily == {"ValueError", "ParseError"}

\* to_string with the prefix written in lower case
to_string_lower_prefix(v, include_prefix) ==
    LET core == str(v.major) \o <<".">> \o str(v.minor) \o <<".">> \o str(v.patch)
        pre == IF v.prerelease # None /\ Len(v.prerelease) > 0
               THEN core \o <<"-">> \o v.prerelease ELSE core
        meta == IF v.metadata # None /\ Len(v.metadata) > 0
                THEN pre \o <<"+">> \o v.metadata ELSE pre
    IN  IF include_prefix /\ Len(v.prefix) > 0 THEN lower(v.prefix) \o meta
        ELSE meta

\* SemanticVersion.to_string
to_string(v, include_prefix) ==
    LET core == str(v.major) \o <<".">> \o str(v.minor) \o <<".">> \o str(v.patch)
        pre == IF v.prerelease # None /\ Len(v.prerelease) > 0
               THEN core \o <<"-">> \o v.prerelease ELSE core
        meta == IF v.metadata # None /\ Len(v.metadata) > 0
                THEN pre \o <<"+">> \o v.metadata ELSE pre
    IN  IF include_prefix /\ Len(v.prefix) > 0 THEN v.prefix \o meta ELSE meta

is_prerelease(v) == v.prerelease # None

core_version(v) == <<v.major, v.minor, v.patch>>

\* tuple comparison self_core < other_core
core_lt(x, y) ==
    \/ x[1] < y[1]
    \/ x[1] = y[1] /\ x[2] < y[2]
    \/ x[1] = y[1] /\ x[2] = y[2] /\ x[3] < y[3]

\* the loop with two numeric identifiers compared as text
RECURSIVE compare_identifiers_as_text(_, _, _)
compare_identifiers_as_text(ids1, ids2, i) ==
    IF i > Len(ids1) /\ i > Len(ids2) THEN 0
    ELSE IF i > Len(ids1) THEN -1
    ELSE IF i > Len(ids2) THEN 1
    ELSE LET id1 == ids1[i]
             id2 == ids2[i]
         IN  IF isdigit(id1) /\ ~isdigit(id2) THEN -1
             ELSE IF ~isdigit(id1) /\ isdigit(id2) THEN 1
             ELSE IF str_lt(id1, id2) THEN -1
             ELSE IF str_lt(id2, id1) THEN 1
             ELSE compare_identifiers_as_text(ids1, ids2, i + 1)

\* the loop of _compare_prerelease_identifiers from position i on
RECURSIVE compare_identifiers_from(_, _, _)
compare_identifiers_from(ids1, ids2, i) ==
    IF i > Len(ids1) /\ i > Len(ids2) THEN 0
    ELSE IF i > Len(ids1) THEN -1
    ELSE IF i > Len(ids2) THEN 1
    ELSE LET id1 == ids1[i]
             id2 == ids2[i]
             id1_numeric == isdigit(id1)
             id2_numeric == isdigit(id2)
         IN  IF id1_numeric /\ id2_numeric
             THEN LET r == int(id1) - int(id2)
                  IN  IF r # 0 THEN (IF r < 0 THEN -1 ELSE 1)
                      ELSE compare_identifiers_from(ids1, ids2, i + 1)
             ELSE IF id1_numeric /\ ~id2_numeric THEN -1
             ELSE IF ~id1_numeric /\ id2_numeric THEN 1
             ELSE IF str_lt(id1, id2) THEN -1
             ELSE IF str_lt(id2, id1) THEN 1
             ELSE compare_identifiers_from(ids1, ids2, i + 1)

_compare_prerelease_identifiers(pre1, pre2) ==
    IF pre1 = None /\ pre2 = None THEN 0
    ELSE IF pre1 = None THEN -1
    ELSE IF pre2 = None THEN 1
    ELSE compare_identifiers_from(split(pre1, "."), split(pre2, "."), 1)

\* compare_precedence without the branch for a pre-release against a release
compare_precedence_without_branch(self, other) ==
    IF core_lt(core_version(self), core_version(other)) THEN -1
    ELSE IF core_lt(core_version(other), core_version(self)) THEN 1
    ELSE IF ~is_prerelease(self) /\ ~is_prerelease(other) THEN 0
    ELSE IF ~is_prerelease(self) /\ is_prerelease(other) THEN 1
    ELSE _compare_prerelease_identifiers(self.prerelease, other.prerelease)

\* SemanticVersion.compare_precedence
compare_precedence(self, other) ==
    IF core_lt(core_version(self), core_version(other)) THEN -1
    ELSE IF core_lt(core_version(other), core_version(self)) THEN 1
    ELSE IF ~is_prerelease(self) /\ ~is_prerelease(other) THEN 0
    ELSE IF ~is_prerelease(self) /\ is_prerelease(other) THEN 1
    ELSE IF is_prerelease(self) /\ ~is_prerelease(other) THEN -1
    ELSE _compare_prerelease_identifiers(self.prerelease, other.prerelease)

\* equality of all fields, as a dataclass generates it
eq_by_fields(self, other) == self = other

\* SemanticVersion.__eq__
eq(self, other) == compare_precedence(self, other) = 0

get_prerelease_identifiers(v) ==
    IF v.prerelease = None \/ Len(v.prerelease) = 0 THEN <<>>
    ELSE split(v.prerelease, ".")

\* find_numeric_prerelease_components: <<index, identifier, value>>, index 0-based
RECURSIVE numeric_components_from(_, _)
numeric_components_from(identifiers, i) ==
    IF i > Len(identifiers) THEN <<>>
    ELSE LET identifier == identifiers[i]
             n == trailing_digits(identifier)
             rest == numeric_components_from(identifiers, i + 1)
         IN  IF isdigit(identifier)
             THEN <<<<i - 1, identifier, int(identifier)>>>> \o rest
             ELSE IF n > 0
             THEN <<<<i - 1, identifier,
                      int(SubSeq(identifier, Len(identifier) - n + 1,
                                 Len(identifier)))>>>> \o rest
             ELSE rest

\* only the purely numeric identifiers are found
find_numeric_prerelease_components_digits_only(v) ==
    SelectSeq(numeric_components_from(get_prerelease_identifiers(v), 1),
              LAMBDA component : isdigit(component[2]))

\* the components with their positions counted from one
find_numeric_prerelease_components_counted_from_one(v) ==
    LET found == numeric_components_from(get_prerelease_identifiers(v), 1)
    IN  [n \in 1..Len(found) |->
            <<found[n][1] + 1, found[n][2], found[n][3]>>]

find_numeric_prerelease_components(v) ==
    numeric_components_from(get_prerelease_identifiers(v), 1)

-----------------------------------------------------------------------------
(* incrementer.py: VersionIncrementer *)

MAX_PATCH_ATTEMPTS == 100

MAX_PRERELEASE_ATTEMPTS == 1000

\* _normalized_tags_cache is None
NoCache == {None}

\* f"{x}" of a str or None
fstr(x) == IF x = None THEN <<"N", "o", "n", "e">> ELSE x

\* Python truthiness of a str or None
truthy(x) == x # None /\ Len(x) > 0

\* an operation's outcome together with the number of _version_exists calls
Returned(v, n) == [status |-> "returned", version |-> v, probes |-> n]

Raised(e, n) == [status |-> "raised", error |-> e, probes |-> n]

NotFound(n) == [status |-> "none", probes |-> n]

After(n, r) == [r EXCEPT !.probes = @ + n]

\* the normalization with the case of the letters kept
_normalize_version_string_keeping_case(version_str) ==
    IF Len(version_str) = 0 THEN <<>>
    ELSE LET start_idx == IF version_str[1] = "v" \/ version_str[1] = "V"
                          THEN 1 ELSE 0
             plus_idx == find(version_str, "+", start_idx + 1)
         IN  IF plus_idx # 0
             THEN SubSeq(version_str, start_idx + 1, plus_idx - 1)
             ELSE SubSeq(version_str, start_idx + 1, Len(version_str))

_normalize_version_string(version_str) ==
    IF Len(version_str) = 0 THEN <<>>
    ELSE LET start_idx == IF version_str[1] = "v" \/ version_str[1] = "V"
                          THEN 1 ELSE 0
             plus_idx == find(version_str, "+", start_idx + 1)
         IN  IF plus_idx # 0
             THEN lower(SubSeq(version_str, start_idx + 1, plus_idx - 1))
             ELSE lower(SubSeq(version_str, start_idx + 1, Len(version_str)))

\* the set comprehension of _version_exists, lines 508-510
build_cache(tags) == {_normalize_version_string(tag) : tag \in tags}

\* The engine as an operation sees it: cache is _normalized_tags_cache as it
\* stands once the first lookup against a non-empty tag set has run.
Engine(tags, preserve, cache) ==
    [existing_tags |-> tags, preserve_metadata |-> preserve,
     cache |-> IF cache = NoCache THEN build_cache(tags) ELSE cache]

_version_exists(self, version) ==
    IF self.existing_tags = {} THEN FALSE
    ELSE _normalize_version_string(to_string(version, FALSE)) \in self.cache

kept_metadata(self, version) ==
    IF self.preserve_metadata THEN version.metadata ELSE None

\* The search loops probe their candidates in ascending order and stop at the
\* first one that is free.  Each is computed over a range first..last by
\* halving: the lower half is searched first and the upper half only when the
\* lower half held no free candidate, which is the order and the number of
\* probes of the loop.

\* the loop of _find_available_prerelease_version over counters first..last
RECURSIVE find_available_from(_, _, _, _, _, _, _, _, _)
find_available_from(self, major, minor, patch, prerelease_type, first, last, metadata, prefix) ==
    IF first > last THEN NotFound(0)
    ELSE IF first = last
    THEN LET candidate ==
                 SemanticVersion(major, minor, patch,
                                 fstr(prerelease_type) \o <<".">> \o str(first),
                                 metadata, prefix)
         IN  IF ~_version_exists(self, candidate) THEN Returned(candidate, 1)
             ELSE NotFound(1)
    ELSE LET mid == (first + last) \div 2
             lower_half == find_available_from(self, major, minor, patch,
                                               prerelease_type, first, mid,
                                               metadata, prefix)
         IN  IF lower_half.status = "returned" THEN lower_half
             ELSE After(lower_half.probes,
                        find_available_from(self, major, minor, patch,
                                            prerelease_type, mid + 1, last,
                                            metadata, prefix))

\* the search going on for as long as there are tags, with no ceiling
_find_available_prerelease_version_no_ceiling(self, major, minor, patch, prerelease_type, start_counter, max_attempts, metadata, prefix) ==
    find_available_from(self, major, minor, patch, prerelease_type,
                        start_counter,
                        start_counter + Cardinality(self.existing_tags),
                        metadata, prefix)

\* VersionIncrementer._find_available_prerelease_version
_find_available_prerelease_version(self, major, minor, patch, prerelease_type, start_counter, max_attempts, metadata, prefix) ==
    LET attempts == IF max_attempts = 0 THEN MAX_PRERELEASE_ATTEMPTS
                    ELSE max_attempts
    IN  find_available_from(self, major, minor, patch, prerelease_type,
                            start_counter, start_counter + attempts - 1,
                            metadata, prefix)

\* re.sub(r"\d+$", str(number), original_id)
replace_trailing_digits(original_id, number) ==
    SubSeq(original_id, 1, Len(original_id) - trailing_digits(original_id))
    \o str(number)

\* the while loop of _find_next_available_version over counters first..last
RECURSIVE next_available_from(_, _, _, _, _, _)
next_available_from(self, base_version, index, original_id, first, last) ==
    IF first = last
    THEN LET identifiers == get_prerelease_identifiers(base_version)
             new_id == IF isdigit(original_id) THEN str(first)
                       ELSE replace_trailing_digits(original_id, first)
             new_identifiers == [identifiers EXCEPT ![index + 1] = new_id]
             candidate ==
                 SemanticVersion(base_version.major, base_version.minor,
                                 base_version.patch,
                                 join(new_identifiers, <<".">>),
                                 base_version.metadata, base_version.prefix)
         IN  IF ~_version_exists(self, candidate) THEN Returned(candidate, 1)
             ELSE NotFound(1)
    ELSE LET mid == (first + last) \div 2
             lower_half == next_available_from(self, base_version, index,
                                               original_id, first, mid)
         IN  IF lower_half.status = "returned" THEN lower_half
             ELSE After(lower_half.probes,
                        next_available_from(self, base_version, index,
                                            original_id, mid + 1, last))

_find_next_available_version(self, base_version) ==
    IF ~is_prerelease(base_version) THEN Raised("ValueError", 0)
    ELSE LET numeric_components == find_numeric_prerelease_components(base_version)
         IN  IF Len(numeric_components) = 0
             THEN Returned(
                      SemanticVersion(base_version.major, base_version.minor,
                                      base_version.patch,
                                      fstr(base_version.prerelease) \o <<".", "1">>,
                                      kept_metadata(self, base_version),
                                      base_version.prefix), 0)
             ELSE LET last_numeric == numeric_components[Len(numeric_components)]
                      counter == last_numeric[3] + 1
                      \* the loop body runs once before the safety break is
                      \* tested, and the break fires once counter exceeds
                      \* MAX_PRERELEASE_ATTEMPTS
                      search ==
                          next_available_from(
                              self, base_version, last_numeric[1],
                              last_numeric[2], counter,
                              IF counter > MAX_PRERELEASE_ATTEMPTS THEN counter
                              ELSE MAX_PRERELEASE_ATTEMPTS)
                  IN  IF search.status = "returned" THEN search
                      ELSE Raised("RuntimeError", search.probes)

_find_next_available_prerelease_for_conflict(self, base_version, prerelease_type) ==
    LET available_version ==
            _find_available_prerelease_version(
                self, base_version.major, base_version.minor, base_version.patch,
                prerelease_type, 1, 0, base_version.metadata, base_version.prefix)
        fallback ==
            SemanticVersion(base_version.major, base_version.minor,
                            base_version.patch + 1,
                            fstr(prerelease_type) \o <<".", "1">>,
                            base_version.metadata, base_version.prefix)
    IN  IF available_version.status = "returned" THEN available_version
        ELSE IF ~_version_exists(self, fallback)
        THEN Returned(fallback, available_version.probes + 1)
        ELSE After(available_version.probes + 1,
                   _find_next_available_version(self, fallback))

\* the loop "for patch in range(1, self.MAX_PATCH_ATTEMPTS)" of
\* _increment_major and _increment_minor
RECURSIVE patch_scan_from(_, _, _, _, _)
patch_scan_from(self, version, candidate, first, last) ==
    IF first > last THEN NotFound(0)
    ELSE IF first = last
    THEN LET next_candidate ==
                 SemanticVersion(candidate.major, candidate.minor, first, None,
                                 kept_metadata(self, version), version.prefix)
         IN  IF ~_version_exists(self, next_candidate)
             THEN Returned(next_candidate, 1)
             ELSE NotFound(1)
    ELSE LET mid == (first + last) \div 2
             lower_half == patch_scan_from(self, version, candidate, first, mid)
         IN  IF lower_half.status = "returned" THEN lower_half
             ELSE After(lower_half.probes,
                        patch_scan_from(self, version, candidate, mid + 1, last))

\* the patch scan of Major and Minor going one patch further, to 100
resolve_candidate_scanning_100(self, version, candidate) ==
    IF _version_exists(self, candidate)
    THEN LET scan == patch_scan_from(self, version, candidate, 1,
                                     MAX_PATCH_ATTEMPTS)
         IN  IF scan.status = "returned" THEN After(1, scan)
             ELSE After(1 + scan.probes,
                        _find_next_available_prerelease_for_conflict(
                            self, candidate, <<"d", "e", "v">>))
    ELSE Returned(candidate, 1)

\* lines 95-115 and 128-148: what _increment_major and _increment_minor do
\* with their candidate
resolve_candidate(self, version, candidate) ==
    IF _version_exists(self, candidate)
    THEN LET scan == patch_scan_from(self, version, candidate, 1,
                                     MAX_PATCH_ATTEMPTS - 1)
         IN  IF scan.status = "returned" THEN After(1, scan)
             ELSE After(1 + scan.probes,
                        _find_next_available_prerelease_for_conflict(
                            self, candidate, <<"d", "e", "v">>))
    ELSE Returned(candidate, 1)

_increment_major(self, version) ==
    resolve_candidate(self, version,
        SemanticVersion(version.major + 1, 0, 0, None,
                        kept_metadata(self, version), version.prefix))

_increment_minor(self, version) ==
    resolve_candidate(self, version,
        SemanticVersion(version.major, version.minor + 1, 0, None,
                        kept_metadata(self, version), version.prefix))

\* the patch candidate with the pre-release of the version left in place
_create_patch_candidate_keeping_prerelease(self, version) ==
    SemanticVersion(version.major, version.minor, version.patch + 1,
                    version.prerelease, kept_metadata(self, version),
                    version.prefix)

\* VersionIncrementer._create_patch_candidate
_create_patch_candidate(self, version) ==
    SemanticVersion(version.major, version.minor, version.patch + 1, None,
                    kept_metadata(self, version), version.prefix)

startswith(s, p) == Len(s) >= Len(p) /\ SubSeq(s, 1, Len(p)) = p

_get_existing_patches(self, major, minor) ==
    LET prefix_pattern == str(major) \o <<".">> \o str(minor) \o <<".">>
        patch_str(tag) ==
            LET normalized == _normalize_version_string(tag)
                remainder == SubSeq(normalized, Len(prefix_pattern) + 1,
                                    Len(normalized))
            IN  split(split(remainder, "-")[1], "+")[1]
    IN  {int(patch_str(tag)) :
            tag \in {t \in self.existing_tags :
                        /\ startswith(_normalize_version_string(t), prefix_pattern)
                        /\ isdigit(patch_str(t))}}

\* the while loop of _find_next_available_patch
RECURSIVE next_patch_from(_, _, _, _, _)
next_patch_from(self, version, existing_patches, first, last) ==
    IF first > last THEN NotFound(0)
    ELSE IF first = last
    THEN IF first \notin existing_patches
         THEN LET candidate ==
                      SemanticVersion(version.major, version.minor, first, None,
                                      kept_metadata(self, version),
                                      version.prefix)
              IN  IF ~_version_exists(self, candidate)
                  THEN Returned(candidate, 1)
                  ELSE NotFound(1)
         ELSE NotFound(0)
    ELSE LET mid == (first + last) \div 2
             lower_half == next_patch_from(self, version, existing_patches,
                                           first, mid)
         IN  IF lower_half.status = "returned" THEN lower_half
             ELSE After(lower_half.probes,
                        next_patch_from(self, version, existing_patches,
                                        mid + 1, last))

_find_next_available_patch(self, version) ==
    next_patch_from(self, version,
                    _get_existing_patches(self, version.major, version.minor),
                    version.patch + 1, version.patch + MAX_PATCH_ATTEMPTS)

_create_conflict_prerelease(self, version, prerelease_type) ==
    LET base_version ==
            SemanticVersion(version.major, version.minor, version.patch + 1, None,
                            kept_metadata(self, version), version.prefix)
        prerelease_candidate ==
            SemanticVersion(base_version.major, base_version.minor,
                            base_version.patch,
                            fstr(prerelease_type) \o <<".", "1">>,
                            kept_metadata(self, base_version),
                            base_version.prefix)
    IN  IF ~_version_exists(self, prerelease_candidate)
        THEN Returned(prerelease_candidate, 1)
        ELSE After(1, _find_next_available_prerelease_for_conflict(
                          self, base_version, prerelease_type))

\* the conflict of Patch resolved by a pre-release at once, with no patch scan
_resolve_patch_conflict_without_scan(self, version, prerelease_type) ==
    _create_conflict_prerelease(self, version, prerelease_type)

\* VersionIncrementer._resolve_patch_conflict
_resolve_patch_conflict(self, version, prerelease_type) ==
    LET next_patch == _find_next_available_patch(self, version)
    IN  IF next_patch.status = "returned" THEN next_patch
        ELSE After(next_patch.probes,
                   _create_conflict_prerelease(self, version, prerelease_type))

_increment_patch(self, version, prerelease_type) ==
    LET candidate == _create_patch_candidate(self, version)
    IN  IF ~_version_exists(self, candidate) THEN Returned(candidate, 1)
        ELSE After(1, _resolve_patch_conflict(self, version, prerelease_type))

\* the loop "for p in range(patch, patch + 5)" of _create_first_prerelease
RECURSIVE first_prerelease_from(_, _, _, _, _)
first_prerelease_from(self, version, prerelease_id, p, stop) ==
    IF p >= stop THEN NotFound(0)
    ELSE LET available_version ==
                 _find_available_prerelease_version(
                     self, version.major, version.minor, p, prerelease_id, 1,
                     IF MAX_PRERELEASE_ATTEMPTS < MAX_PATCH_ATTEMPTS
                     THEN MAX_PRERELEASE_ATTEMPTS ELSE MAX_PATCH_ATTEMPTS,
                     version.metadata, version.prefix)
         IN  IF available_version.status = "returned" THEN available_version
             ELSE After(available_version.probes,
                        first_prerelease_from(self, version, prerelease_id,
                                              p + 1, stop))

\* the search of the first pre-release with 1000 counters at each patch
_create_first_prerelease_1000_counters(self, version, prerelease_type) ==
    LET prerelease_id == IF truthy(prerelease_type) THEN prerelease_type
                         ELSE <<"d", "e", "v">>
        at(p) == _find_available_prerelease_version(
                     self, version.major, version.minor, p, prerelease_id, 1,
                     MAX_PRERELEASE_ATTEMPTS, version.metadata, version.prefix)
        hits == {p \in (version.patch + 1)..(version.patch + 5) :
                    at(p).status = "returned"}
    IN  IF hits # {}
        THEN Returned(at(CHOOSE p \in hits : \A q \in hits : p <= q).version, 1)
        ELSE Returned(
                 SemanticVersion(version.major, version.minor, version.patch,
                                 fstr(prerelease_type) \o <<".", "1">>,
                                 kept_metadata(self, version), version.prefix),
                 1)

\* VersionIncrementer._create_first_prerelease
_create_first_prerelease(self, version, prerelease_type) ==
    LET prerelease_id == IF truthy(prerelease_type) THEN prerelease_type
                         ELSE <<"d", "e", "v">>
        patch == version.patch + 1
        search == first_prerelease_from(self, version, prerelease_id, patch,
                                        patch + 5)
    IN  IF search.status = "returned" THEN search
        ELSE Returned(
                 SemanticVersion(version.major, version.minor, version.patch,
                                 fstr(prerelease_type) \o <<".", "1">>,
                                 kept_metadata(self, version), version.prefix),
                 search.probes)

\* the collision search made at the patch of the version, not the next one
_increment_existing_prerelease_same_patch(self, version) ==
    LET numeric_components == find_numeric_prerelease_components(version)
        identifiers == get_prerelease_identifiers(version)
        last_numeric == numeric_components[Len(numeric_components)]
        index == last_numeric[1]
        original_id == last_numeric[2]
        numeric_value == last_numeric[3]
        new_id == IF isdigit(original_id) THEN str(numeric_value + 1)
                  ELSE replace_trailing_digits(original_id, numeric_value + 1)
        new_prerelease ==
            IF Len(numeric_components) = 0
            THEN fstr(version.prerelease) \o <<".", "1">>
            ELSE join([identifiers EXCEPT ![index + 1] = new_id], <<".">>)
        candidate == SemanticVersion(version.major, version.minor, version.patch,
                                     new_prerelease,
                                     kept_metadata(self, version), version.prefix)
    IN  IF _version_exists(self, candidate)
        THEN LET prerelease_base == split(new_prerelease, ".")[1]
                 available_version ==
                     _find_available_prerelease_version(
                         self, version.major, version.minor, version.patch,
                         prerelease_base, 1, 0, version.metadata, version.prefix)
             IN  IF available_version.status = "returned"
                 THEN After(1, available_version)
                 ELSE Raised("RuntimeError", 1 + available_version.probes)
        ELSE Returned(candidate, 1)

\* VersionIncrementer._increment_existing_prerelease
_increment_existing_prerelease(self, version) ==
    LET numeric_components == find_numeric_prerelease_components(version)
        identifiers == get_prerelease_identifiers(version)
        last_numeric == numeric_components[Len(numeric_components)]
        index == last_numeric[1]
        original_id == last_numeric[2]
        numeric_value == last_numeric[3]
        new_id == IF isdigit(original_id) THEN str(numeric_value + 1)
                  ELSE replace_trailing_digits(original_id, numeric_value + 1)
        new_prerelease ==
            IF Len(numeric_components) = 0
            THEN fstr(version.prerelease) \o <<".", "1">>
            ELSE join([identifiers EXCEPT ![index + 1] = new_id], <<".">>)
        candidate == SemanticVersion(version.major, version.minor, version.patch,
                                     new_prerelease,
                                     kept_metadata(self, version), version.prefix)
    IN  IF _version_exists(self, candidate)
        THEN LET prerelease_base == split(new_prerelease, ".")[1]
                 available_version ==
                     _find_available_prerelease_version(
                         self, version.major, version.minor, version.patch + 1,
                         prerelease_base, 1, 0, version.metadata, version.prefix)
             IN  IF available_version.status = "returned"
                 THEN After(1, available_version)
                 ELSE Raised("RuntimeError", 1 + available_version.probes)
        ELSE Returned(candidate, 1)

\* the label compared with the leading identifier with the case of letters kept
_increment_prerelease_case_sensitive(self, version, prerelease_type) ==
    IF ~is_prerelease(version)
    THEN _create_first_prerelease(self, version, prerelease_type)
    ELSE LET identifiers == get_prerelease_identifiers(version)
         IN  IF /\ truthy(prerelease_type)
                /\ Len(identifiers) > 0
                /\ identifiers[1] # prerelease_type
             THEN Returned(
                      SemanticVersion(version.major, version.minor, version.patch,
                                      prerelease_type \o <<".", "1">>,
                                      kept_metadata(self, version),
                                      version.prefix), 0)
             ELSE _increment_existing_prerelease(self, version)

\* VersionIncrementer._increment_prerelease
_increment_prerelease(self, version, prerelease_type) ==
    IF ~is_prerelease(version)
    THEN _create_first_prerelease(self, version, prerelease_type)
    ELSE LET identifiers == get_prerelease_identifiers(version)
             current_type == IF Len(identifiers) > 0 THEN lower(identifiers[1])
                             ELSE <<>>
         IN  IF /\ truthy(prerelease_type)
                /\ Len(current_type) > 0
                /\ current_type # lower(prerelease_type)
             THEN Returned(
                      SemanticVersion(version.major, version.minor, version.patch,
                                      prerelease_type \o <<".", "1">>,
                                      kept_metadata(self, version),
                                      version.prefix), 0)
             ELSE _increment_existing_prerelease(self, version)

\* class IncrementType
IncrementType == {"MAJOR", "MINOR", "PATCH", "PRERELEASE", "DEV"}

\* VersionIncrementer.increment
increment(self, version, increment_type, prerelease_type) ==
    IF increment_type = "MAJOR" THEN _increment_major(self, version)
    ELSE IF increment_type = "MINOR" THEN _increment_minor(self, version)
    ELSE IF increment_type = "PATCH"
    THEN _increment_patch(self, version,
                          IF truthy(prerelease_type) THEN prerelease_type
                          ELSE <<"d", "e", "v">>)
    ELSE IF increment_type \in {"PRERELEASE", "DEV"}
    THEN _increment_prerelease(self, version, prerelease_type)
    ELSE Raised("ValueError", 0)

\* sub in s, for two str
contains(s, sub) ==
    \E i \in 1..(Len(s) - Len(sub) + 1) : SubSeq(s, i, i + Len(sub) - 1) = sub

\* suggestion not in suggestions is false
among(suggestion, suggestions) ==
    \E k \in 1..Len(suggestions) : eq(suggestion, suggestions[k])

\* the suggestion of the standard progression built with no prefix
progression_suggestion_unprefixed(current_version) ==
    IF ~is_prerelease(current_version) THEN <<>>
    ELSE LET identifiers == get_prerelease_identifiers(current_version)
             current_type == IF Len(identifiers) > 0 THEN lower(identifiers[1])
                             ELSE <<"d", "e", "v">>
             next_type ==
                 IF \/ contains(current_type, <<"a", "l", "p", "h", "a">>)
                    \/ contains(current_type, <<"d", "e", "v">>)
                 THEN <<"b", "e", "t", "a">>
                 ELSE IF contains(current_type, <<"b", "e", "t", "a">>)
                 THEN <<"r", "c">>
                 ELSE None
         IN  IF truthy(next_type)
             THEN <<SemanticVersion(current_version.major, current_version.minor,
                                    current_version.patch,
                                    next_type \o <<".", "1">>,
                                    current_version.metadata,
                                    <<>>)>>
             ELSE <<>>

\* the suggestion of the standard progression dev/alpha -> beta -> rc
progression_suggestion(current_version) ==
    IF ~is_prerelease(current_version) THEN <<>>
    ELSE LET identifiers == get_prerelease_identifiers(current_version)
             current_type == IF Len(identifiers) > 0 THEN lower(identifiers[1])
                             ELSE <<"d", "e", "v">>
             next_type ==
                 IF \/ contains(current_type, <<"a", "l", "p", "h", "a">>)
                    \/ contains(current_type, <<"d", "e", "v">>)
                 THEN <<"b", "e", "t", "a">>
                 ELSE IF contains(current_type, <<"b", "e", "t", "a">>)
                 THEN <<"r", "c">>
                 ELSE None
         IN  IF truthy(next_type)
             THEN <<SemanticVersion(current_version.major, current_version.minor,
                                    current_version.patch,
                                    next_type \o <<".", "1">>,
                                    current_version.metadata,
                                    current_version.prefix)>>
             ELSE <<>>

\* for prerelease_type in ["dev", "alpha", "beta", "rc"]
PrereleaseStrategies ==
    << <<"d", "e", "v">>, <<"a", "l", "p", "h", "a">>, <<"b", "e", "t", "a">>,
       <<"r", "c">> >>

\* what _create_first_prerelease gives for each strategy of the loop
strategy_outcomes(self, current_version) ==
    [i \in 1..Len(PrereleaseStrategies) |->
        _create_first_prerelease(self, current_version,
                                 PrereleaseStrategies[i])]

\* the suggestions after the first n strategies: one that raised or that is
\* among the suggestions already is left out
RECURSIVE suggestions_after(_, _, _)
suggestions_after(outcomes, first, n) ==
    IF n = 0 THEN first
    ELSE LET suggestions == suggestions_after(outcomes, first, n - 1)
         IN  IF /\ outcomes[n].status = "returned"
                /\ ~among(outcomes[n].version, suggestions)
             THEN Append(suggestions, outcomes[n].version)
             ELSE suggestions

\* the number of _version_exists calls of the first n strategies
RECURSIVE strategy_probes(_, _)
strategy_probes(outcomes, n) ==
    IF n = 0 THEN 0 ELSE strategy_probes(outcomes, n - 1) + outcomes[n].probes

\* the suggestions of the loop, given its outcomes, after those in first
strategy_suggestions(outcomes, first) ==
    [status |-> "returned",
     suggestions |-> suggestions_after(outcomes, first, Len(outcomes)),
     probes |-> strategy_probes(outcomes, Len(outcomes))]

\* suggestions.append(self.increment(current_version, increment_type))
single_suggestion(outcome) ==
    IF outcome.status = "returned"
    THEN [status |-> "returned", suggestions |-> <<outcome.version>>,
          probes |-> outcome.probes]
    ELSE outcome

\* VersionIncrementer.suggest_next_version
suggest_next_version(self, current_version, increment_type) ==
    IF increment_type = "PRERELEASE"
    THEN strategy_suggestions(strategy_outcomes(self, current_version),
                              progression_suggestion(current_version))
    ELSE single_suggestion(increment(self, current_version, increment_type,
                                     None))

-----------------------------------------------------------------------------
(* The engine as a state machine: one VersionIncrementer instance, and a     *)
(* caller that holds a version, an increment type and an optional label.     *)

\* string literals
dev == <<"d", "e", "v">>
alpha == <<"a", "l", "p", "h", "a">>
beta == <<"b", "e", "t", "a">>
rc == <<"r", "c">>
dot == <<".">>

\* largest patch number of the caller's versions
MaxPatch == 1

\* a tag as git holds it: v<major>.<minor>.<patch>[-<label>.<counter>]
release_tag(major, minor, patch) ==
    <<"v">> \o str(major) \o dot \o str(minor) \o dot \o str(patch)

prerelease_tag(major, minor, patch, label, counter) ==
    release_tag(major, minor, patch) \o <<"-">> \o label \o dot \o str(counter)

\* the suffixes of the caller's versions
Suffixes ==
    { <<>>,
      <<"-">> \o alpha \o <<".", "1">>,
      <<"-">> \o beta \o <<"9">>,
      <<"-">> \o rc \o <<"+", "b">>,
      <<"-">> \o rc \o <<".", "9">> }

VersionStrings ==
    {prefix \o <<"1", ".", "0", ".">> \o str(patch) \o suffix :
        prefix \in {<<>>, <<"v">>}, patch \in 0..MaxPatch, suffix \in Suffixes}
    \cup {<<"V", "1", ".", "0", ".", "0", "+", "b">>}

Versions == {parse(s).version : s \in VersionStrings}

Labels == {None, beta, <<"A", "l", "p", "h", "a">>}

\* the default candidates of the versions 1.0.0 and 1.0.0-*
TakenDefaults ==
    {release_tag(2, 0, 0), release_tag(1, 1, 0), release_tag(1, 0, 1),
     prerelease_tag(1, 0, 1, dev, 1), prerelease_tag(1, 0, 0, beta, 1),
     <<"1", ".", "0", ".", "0", "-", "A", "L", "P", "H", "A", ".", "2", "+", "x">>,
     <<"1", ".", "0", ".", "0", "-", "b", "e", "t", "a", "1", "0">>,
     <<"V", "1", ".", "0", ".", "0", "-", "r", "c", ".", "1">>,
     <<"1", ".", "0", ".", "0", "-", "r", "c", ".", "1", "0">>}

\* every patch release first..last of major.minor
Releases(major, minor, first, last) ==
    {release_tag(major, minor, patch) : patch \in first..last}

\* every counter first..last of label at major.minor.patch
Counters(major, minor, patch, label, first, last) ==
    {prerelease_tag(major, minor, patch, label, counter) : counter \in first..last}

\* the tag sets an engine is constructed with, for any call
TagSets ==
    { {},
      {release_tag(1, 0, 1)},
      TakenDefaults,
      TakenDefaults \cup Counters(1, 0, 1, alpha, 1, 3)
          \cup Counters(1, 0, 1, dev, 1, 2) \cup Releases(1, 0, 2, 3) }

\* the tag sets a caller replaces them with
NewTagSets == { {}, {release_tag(1, 0, 1)}, TakenDefaults }

\* Tag sets that hold every candidate of a search, each with the calls whose
\* search they exhaust.

\* Major of 1.0.0: patches 0..99 of 2.0 taken, then the dev counters
MajorSaturated ==
    { Releases(2, 0, 0, MAX_PATCH_ATTEMPTS - 1),
      Releases(2, 0, 0, MAX_PATCH_ATTEMPTS - 1)
          \cup Counters(2, 0, 0, dev, 1, 6 * MAX_PRERELEASE_ATTEMPTS)
          \cup Counters(2, 0, 1, dev, 1, MAX_PRERELEASE_ATTEMPTS),
      Releases(2, 0, 0, MAX_PATCH_ATTEMPTS - 1)
          \cup Counters(2, 0, 0, dev, 1, MAX_PRERELEASE_ATTEMPTS)
          \cup Counters(2, 0, 1, dev, 1, MAX_PRERELEASE_ATTEMPTS - 1),
      Releases(2, 0, 0, MAX_PATCH_ATTEMPTS - 1)
          \cup Counters(2, 0, 0, dev, 1, MAX_PRERELEASE_ATTEMPTS)
          \cup Counters(2, 0, 1, dev, 1, MAX_PRERELEASE_ATTEMPTS) }

\* Minor of 1.0.0: the same at 1.1
MinorSaturated ==
    { Releases(1, 1, 0, MAX_PATCH_ATTEMPTS - 1)
          \cup Counters(1, 1, 0, dev, 1, MAX_PRERELEASE_ATTEMPTS)
          \cup Counters(1, 1, 1, dev, 1, MAX_PRERELEASE_ATTEMPTS) }

\* Patch of 1.0.0: every patch of the scan taken, then the counters of the label
PatchSaturated ==
    { Releases(1, 0, 1, MAX_PATCH_ATTEMPTS + 1),
      Releases(1, 0, 1, MAX_PATCH_ATTEMPTS + 1)
          \cup Counters(1, 0, 1, dev, 1, MAX_PRERELEASE_ATTEMPTS)
          \cup Counters(1, 0, 2, dev, 1, MAX_PRERELEASE_ATTEMPTS)
          \cup Counters(1, 0, 1, beta, 1, MAX_PRERELEASE_ATTEMPTS)
          \cup Counters(1, 0, 2, beta, 1, 2) }

\* Prerelease of 1.0.0: the whole window of five patches taken
FirstPrereleaseSaturated ==
    { UNION {Counters(1, 0, patch, label, 1, MAX_PATCH_ATTEMPTS) :
                patch \in 1..5, label \in {dev, beta}} }

\* Prerelease of 1.0.0-alpha.1 and 1.0.0-rc.9: the in-place candidate taken,
\* and the counters at the next patch
InPlaceSaturated ==
    { TakenDefaults \cup Counters(1, 0, 1, alpha, 1, MAX_PRERELEASE_ATTEMPTS)
          \cup Counters(1, 0, 1, rc, 1, MAX_PRERELEASE_ATTEMPTS - 1) }

Call(tags, s, type, label) ==
    [tags |-> tags, version |-> parse(s).version, increment_type |-> type,
     prerelease_type |-> label]

SaturatedCalls ==
    {Call(t, <<"1", ".", "0", ".", "0">>, "MAJOR", None) : t \in MajorSaturated}
    \cup
    {Call(t, <<"v", "1", ".", "0", ".", "0">>, "MINOR", None) :
        t \in MinorSaturated}
    \cup
    {Call(t, <<"v", "1", ".", "0", ".", "0">>, "PATCH", l) :
        t \in PatchSaturated, l \in {None, beta}}
    \cup
    {Call(t, <<"1", ".", "0", ".", "0", "+", "b">>, k, l) :
        t \in FirstPrereleaseSaturated, k \in {"PRERELEASE", "DEV"},
        l \in {None, beta}}
    \cup
    {Call(t, <<"v", "1", ".", "0", ".", "0", "-">> \o s, "PRERELEASE", l) :
        t \in InPlaceSaturated,
        s \in {alpha \o <<".", "1">>, rc \o <<".", "9">>},
        l \in {None, <<"A", "l", "p", "h", "a">>}}

\* Calls of the documentation and of the tests, each with its tags

\* the example of the package documentation: a pre-release tag at patch+2
DocumentedTags == { <<"v", "1", ".", "2", ".", "3">>, <<"v", "1", ".", "2", ".", "4">>, <<"v", "1", ".", "2", ".", "5", "-", "d", "e", "v", ".", "1">> }

\* the counters 1..100 of dev at the first patch of the window, and no more
FirstPatchFull == Counters(1, 0, 1, dev, 1, MAX_PATCH_ATTEMPTS)

\* pre-releases with several numeric identifiers, and with a numeric
\* identifier that is not the last one
ChainedPrereleases ==
    { <<"1", ".", "2", ".", "3", "-", "R", "C", "-", "S", "N", "A", "P", "S", "H", "O", "T", ".", "1", "2", ".", "d", "e", "v", "1">>,
      <<"v", "1", ".", "2", ".", "3", "-", "a", "l", "p", "h", "a", ".", "1", ".", "x">>,
      <<"1", ".", "2", ".", "3", "-", "r", "c", ".", "0", "9", ".", "d", "e", "v">>,
      <<"1", ".", "2", ".", "3", "-", "x", ".", "y", "+", "b">> }

\* every counter 1..1000 of dev in use at each patch of the window
WindowFull ==
    UNION {Counters(1, 0, patch, dev, 1, MAX_PRERELEASE_ATTEMPTS) :
              patch \in 1..5}

ScenarioCalls ==
    {Call(WindowFull, <<"1", ".", "0", ".", "0">>, "PRERELEASE", l) :
        l \in {None, dev}}
    \cup
    {Call(DocumentedTags, <<"v", "1", ".", "2", ".", "3">>, "PATCH", None)}
    \cup
    {Call(FirstPatchFull, <<"1", ".", "0", ".", "0">>, k, None) :
        k \in {"PRERELEASE", "DEV"}}
    \cup
    {Call(t, s, "PRERELEASE", None) :
        t \in { {}, {<<"v", "1", ".", "2", ".", "3", "-", "a", "l", "p", "h", "a", ".", "2", ".", "x">>} }, s \in ChainedPrereleases}

NoResult == [status |-> "none"]

\* no run of the command is under way
no_run ==
    /\ inputs = None
    /\ pc = "idle"
    /\ events = <<>>
    /\ determined = NoResult
    /\ report = NoResult

\* no comparison has been made
NotCompared == [cmp |-> <<>>, eq |-> <<>>]

Init ==
    /\ \/ /\ existing_tags \in TagSets
          /\ arg_version \in Versions
          /\ arg_increment_type \in IncrementType
          /\ arg_prerelease_type \in Labels
       \/ \E c \in SaturatedCalls \cup ScenarioCalls :
              /\ existing_tags = c.tags
              /\ arg_version = c.version
              /\ arg_increment_type = c.increment_type
              /\ arg_prerelease_type = c.prerelease_type
    /\ preserve_metadata \in BOOLEAN
    /\ normalized_tags_cache = NoCache
    /\ call = "__init__"
    /\ result = NoResult
    /\ probes = 0
    /\ builds = 0
    /\ version_string = None
    /\ parsed = NoResult
    /\ formatted = None
    /\ numeric_prerelease_components = NoResult
    /\ operands = {}
    /\ precedence = NotCompared
    /\ no_run

\* what the caller gets from a call: the version or the suggestions it
\* returned, or the error it raised
seen(outcome) ==
    IF outcome.status # "returned"
    THEN [status |-> "raised", error |-> outcome.error]
    ELSE IF "suggestions" \in DOMAIN outcome
    THEN [status |-> "returned", suggestions |-> outcome.suggestions]
    ELSE [status |-> "returned", version |-> outcome.version]

\* the set comprehension of _version_exists run anew at every lookup
builds_of_without_cache(cache, tags, lookups) ==
    IF tags = {} THEN 0 ELSE lookups

\* how often the lookups of one call run the set comprehension of
\* _version_exists: a lookup returns before it when there are no tags, and
\* runs it only while _normalized_tags_cache is None
builds_of(cache, tags, lookups) ==
    IF lookups = 0 \/ tags = {} THEN 0
    ELSE IF cache = NoCache THEN 1 ELSE 0

\* the state after a call of the engine that looks tags up:
\* _get_normalized_tags fills the cache at the first _version_exists that
\* gets past the empty-set test
after_call(name, self, outcome) ==
    /\ call' = name
    /\ result' = seen(outcome)
    /\ probes' = outcome.probes
    /\ builds' = builds_of(normalized_tags_cache, existing_tags, probes')
    /\ normalized_tags_cache' =
           IF outcome.probes > 0 /\ existing_tags # {}
           THEN self.cache ELSE normalized_tags_cache
    /\ UNCHANGED <<existing_tags, preserve_metadata, arg_version,
                   arg_increment_type, arg_prerelease_type>>
    /\ UNCHANGED <<parser_vars, compare_vars, entry_vars>>

\* result = incrementer.increment(version, increment_type, prerelease_type)
Increment ==
    after_call("increment",
               Engine(existing_tags, preserve_metadata, normalized_tags_cache),
               increment(Engine(existing_tags, preserve_metadata,
                                normalized_tags_cache),
                         arg_version, arg_increment_type, arg_prerelease_type))

\* suggestions = incrementer.suggest_next_version(version, increment_type)
SuggestNextVersion ==
    after_call("suggest_next_version",
               Engine(existing_tags, preserve_metadata, normalized_tags_cache),
               suggest_next_version(Engine(existing_tags, preserve_metadata,
                                           normalized_tags_cache),
                                    arg_version, arg_increment_type))

\* the versions a caller looks up
LookupCandidates ==
    {parse(s).version :
        s \in { <<"V", "1", ".", "0", ".", "1", "+", "m">>,
                <<"1", ".", "0", ".", "0", "-", "a", "l", "p", "h", "a", ".", "2">>,
                <<"1", ".", "0", ".", "0", "-", "R", "C", ".", "1">>,
                <<"v", "1", ".", "2", ".", "4">>,
                <<"3", ".", "0", ".", "0">> }}

\* a lookup that adds the candidate to the tags
looked_up_adding_the_candidate(candidate, self, answer) ==
    /\ call' = "_version_exists"
    /\ result' = [status |-> "returned", candidate |-> candidate,
                  exists |-> answer]
    /\ probes' = 1
    /\ builds' = builds_of(normalized_tags_cache, existing_tags, probes')
    /\ normalized_tags_cache' =
           IF existing_tags # {} THEN self.cache ELSE normalized_tags_cache
    /\ existing_tags' = existing_tags \cup {to_string(candidate, TRUE)}
    /\ UNCHANGED <<preserve_metadata, arg_version, arg_increment_type,
                   arg_prerelease_type>>
    /\ UNCHANGED <<parser_vars, compare_vars, entry_vars>>

\* the state after incrementer._version_exists(candidate) gave the answer
looked_up(candidate, self, answer) ==
    /\ call' = "_version_exists"
    /\ result' = [status |-> "returned", candidate |-> candidate,
                  exists |-> answer]
    /\ probes' = 1
    /\ builds' = builds_of(normalized_tags_cache, existing_tags, probes')
    /\ normalized_tags_cache' =
           IF existing_tags # {} THEN self.cache ELSE normalized_tags_cache
    /\ UNCHANGED <<existing_tags, preserve_metadata, arg_version,
                   arg_increment_type, arg_prerelease_type>>
    /\ UNCHANGED <<parser_vars, compare_vars, entry_vars>>

\* exists = incrementer._version_exists(candidate)
VersionExists ==
    \E candidate \in LookupCandidates :
        looked_up(candidate,
                  Engine(existing_tags, preserve_metadata, normalized_tags_cache),
                  _version_exists(Engine(existing_tags, preserve_metadata,
                                         normalized_tags_cache), candidate))

\* the tags replaced and the cache left as it was
UpdateExistingTags_keeping_cache ==
    \E new_tags \in NewTagSets :
        /\ existing_tags' = new_tags
        /\ call' = "update_existing_tags"
        /\ result' = NoResult
        /\ probes' = 0
        /\ builds' = 0
        /\ UNCHANGED <<preserve_metadata, arg_version, arg_increment_type,
                       arg_prerelease_type, normalized_tags_cache>>
        /\ UNCHANGED <<parser_vars, compare_vars, entry_vars>>

\* incrementer.update_existing_tags(new_tags)
UpdateExistingTags ==
    \E new_tags \in NewTagSets :
        /\ existing_tags' = new_tags
        /\ normalized_tags_cache' = NoCache
        /\ call' = "update_existing_tags"
        /\ result' = NoResult
        /\ probes' = 0
        /\ builds' = 0
        /\ UNCHANGED <<preserve_metadata, arg_version, arg_increment_type,
                       arg_prerelease_type>>
        /\ UNCHANGED <<parser_vars, compare_vars, entry_vars>>

Next == Increment \/ SuggestNextVersion \/ VersionExists \/ UpdateExistingTags

Spec == Init /\ [][Next]_vars

-----------------------------------------------------------------------------
(* The parser as a state machine: a caller holds a string, parses it and     *)
(* formats the version it got.                                               *)

\* most whitespace characters on either side of an input
MaxPad == 1

\* n copies of the character c
repeat(c, n) == [i \in 1..n |-> c]

NumericTexts ==
    {<<"1">>, <<"0">>, <<"1", "0">>, <<"0", "1">>, <<>>}

PrereleaseTexts ==
    { <<>>, <<"-">>, <<"-", "a">>, <<"-", "a", ".", "1">>,
      <<"-", "a", ".", ".", "b">>, <<"-", "0", "1">>, <<"-", "a", "_", "b">>,
      <<"-", "A", "-", "b", ".", "x", "9">> }

MetadataTexts ==
    { <<>>, <<"+">>, <<"+", "b">>, <<"+", "b", ".", "1", "-", "x">>,
      <<"+", "b", "+", "c">> }

\* texts built piece by piece around <major>.<minor>.<patch>
ComposedTexts ==
    {repeat(" ", lead) \o prefix \o major \o dot \o minor \o dot \o patch
        \o pre \o meta \o repeat(" ", trail) :
        lead \in 0..MaxPad, trail \in 0..MaxPad,
        prefix \in {<<>>, <<"v">>, <<"V">>, <<"x">>},
        major \in NumericTexts, minor \in {<<"2">>, <<"0", "0">>},
        patch \in {<<"3">>, <<"0", "3">>},
        pre \in PrereleaseTexts, meta \in MetadataTexts}

\* texts that are no version at all, and the absent input
OtherTexts ==
    { None, <<>>, <<" ">>, <<"\n">>, <<"1">>, <<"1", ".", "2">>,
      <<"1", ".", "2", ".", "3", ".", "4">>, <<"a", "l", "p", "h", "a">>,
      <<"1", ".", "2", ".", "3", "\n">>, <<"\t", "v", "1", ".", "2", ".", "3">>,
      <<"1", ".", "2", ".", " ", "3">>, <<"v", "v", "1", ".", "2", ".", "3">> }

\* texts of MAX_VERSION_LENGTH characters and of one more
LongTexts ==
    UNION {
        { <<"1", ".", "2", ".", "3", "-">> \o repeat("a", n - 6),
          <<"1", ".", "2", ".", "3">> \o repeat(" ", n - 5),
          repeat(" ", n - 5) \o <<"1", ".", "2", ".", "3">>,
          <<"1", ".", "2", ".", "3", "+">> \o repeat("-", n - 6),
          <<"1", ".", "2", ".", "3", "-", "a">> \o repeat("_", n - 7),
          repeat("1", n), repeat(" ", n) } :
        n \in {MAX_VERSION_LENGTH, MAX_VERSION_LENGTH + 1} }

\* versions whose pre-release has identifiers with and without digits
ComponentTexts ==
    { <<"1", ".", "0", ".", "0", "-", "R", "C", "-", "S", "N", "A", "P", "S", "H", "O", "T", ".", "1", "2", ".", "d", "e", "v", "1">>,
      <<"v", "1", ".", "2", ".", "3", "-", "r", "c", "1", "0", ".", "x", ".", "7", "-", "2", ".", "2", "b", "+", "5">>,
      <<"1", ".", "2", ".", "3", "-", "0", "0", "7", ".", "a", "0", "0", "7">> }

ParseInputs == ComposedTexts \cup OtherTexts \cup LongTexts \cup ComponentTexts

InitParse ==
    /\ version_string \in ParseInputs
    /\ parsed = NoResult
    /\ formatted = None
    /\ numeric_prerelease_components = NoResult
    /\ existing_tags = {}
    /\ preserve_metadata = FALSE
    /\ normalized_tags_cache = NoCache
    /\ arg_version = None
    /\ arg_increment_type = None
    /\ arg_prerelease_type = None
    /\ call = "__init__"
    /\ result = NoResult
    /\ probes = 0
    /\ builds = 0
    /\ operands = {}
    /\ precedence = NotCompared
    /\ no_run

\* parsed = SemanticVersion.parse(version_string)
Parse ==
    /\ parsed' = parse(version_string)
    /\ formatted' = None
    /\ numeric_prerelease_components' = NoResult
    /\ UNCHANGED <<version_string, engine_vars, compare_vars, entry_vars>>

\* formatted = parsed.to_string(include_prefix=True)
Format ==
    /\ parsed.status = "returned"
    /\ formatted' = to_string(parsed.version, TRUE)
    /\ UNCHANGED <<version_string, parsed, numeric_prerelease_components,
                   engine_vars, compare_vars, entry_vars>>

\* the caller asks parsed.find_numeric_prerelease_components()
FindNumericPrereleaseComponents ==
    /\ parsed.status = "returned"
    /\ numeric_prerelease_components'
           = [status |-> "returned",
              components |-> find_numeric_prerelease_components(parsed.version)]
    /\ UNCHANGED <<version_string, parsed, formatted, engine_vars,
                   compare_vars, entry_vars>>

NextParse == Parse \/ Format \/ FindNumericPrereleaseComponents

SpecParse == InitParse /\ [][NextParse]_vars

-----------------------------------------------------------------------------
(* The command: a run takes its inputs through validation, the parse of the  *)
(* tag, the choice of the increment type, the retrieval of the tags and the  *)
(* increment, and writes the versions out, or reports the first error.  The  *)
(* runner is the command line (cli_interface.py) or GitHub Actions           *)
(* (github_actions.py).                                                      *)

\* the enumeration loop and the aliases of determine_increment_type
IncrementTypeValues ==
    {<<<<"m", "a", "j", "o", "r">>, "MAJOR">>, <<<<"m", "i", "n", "o", "r">>, "MINOR">>, <<<<"p", "a", "t", "c", "h">>, "PATCH">>,
     <<<<"p", "r", "e", "r", "e", "l", "e", "a", "s", "e">>, "PRERELEASE">>, <<<<"d", "e", "v">>, "DEV">>}

aliases ==
    {<<<<"d", "e", "v">>, "DEV">>, <<<<"p", "r", "e">>, "PRERELEASE">>, <<<<"p", "r", "e", "r", "e", "l">>, "PRERELEASE">>}

\* the lookup without the aliases
determine_increment_type_without_aliases(increment_str) ==
    LET stripped == strip(lower(increment_str))
    IN  IF \E pair \in IncrementTypeValues : pair[1] = stripped
        THEN [status |-> "returned",
              increment_type |->
                  (CHOOSE pair \in IncrementTypeValues : pair[1] = stripped)[2]]
        ELSE [status |-> "raised", error |-> "ValueError"]

\* VersionIncrementer.determine_increment_type
determine_increment_type(increment_str) ==
    LET stripped == strip(lower(increment_str))
    IN  IF \E pair \in IncrementTypeValues : pair[1] = stripped
        THEN [status |-> "returned",
              increment_type |->
                  (CHOOSE pair \in IncrementTypeValues : pair[1] = stripped)[2]]
        ELSE IF \E pair \in aliases : pair[1] = stripped
        THEN [status |-> "returned",
              increment_type |->
                  (CHOOSE pair \in aliases : pair[1] = stripped)[2]]
        ELSE [status |-> "raised", error |-> "ValueError"]

\* not s or not s.strip()
blank(s) == s = None \/ Len(strip(s)) = 0

\* re.fullmatch(r"[a-zA-Z0-9.-]+", s)
fullmatch_label(s) ==
    Len(s) > 0 /\ \A i \in 1..Len(s) : s[i] \in IdentChars \cup {"."}

\* what IncrementType the strings of a run may name
KindStrings ==
    { <<"m", "a", "j", "o", "r">>, <<"M", "I", "N", "O", "R">>, <<" ", "P", "a", "t", "c", "h", "\n">>, <<"p", "r", "e", "r", "e", "l", "e", "a", "s", "e">>, <<"d", "e", "v">>, <<"P", "r", "e">>, <<"p", "r", "e", "r", "e", "l">>,
      <<>>, <<" ">>, <<"p", "r", "e", "m", "a", "j", "o", "r">>, <<"r", "e", "l", "e", "a", "s", "e">> }

\* the labels of a run
RunLabels == { None, <<"r", "c">>, <<"r", "c", ".">>, <<"b", "e", " ", "t", "a">>, <<"a", ".", "b", "-", "1">>, <<" ">> }

\* the tags of a run
RunTags == { <<"v", "1", ".", "0", ".", "0">>, <<"1", ".", "0">>, <<>> }

\* what git may hold
GitTags == { {}, {<<"v", "1", ".", "0", ".", "1">>} }

\* the runs of the command
Runs ==
    [runner : {"cli"}, tag : RunTags, increment : KindStrings,
     prerelease_type : RunLabels, output_format : {<<"f", "u", "l", "l">>, <<"x", "m", "l">>},
     path_is_dir : BOOLEAN, check_tags : BOOLEAN, git_tags : GitTags]
    \cup
    [runner : {"github_actions"}, tag : RunTags, increment : KindStrings,
     prerelease_type : RunLabels, output_format : {None},
     path_is_dir : {TRUE}, check_tags : BOOLEAN, git_tags : GitTags]

\* GitHubActionsConfig.get_inputs: an input that is empty takes its default
config_get(value, default) ==
    IF value = None \/ Len(value) = 0 THEN default ELSE value

\* the increment string and the label that reach the engine
run_increment ==
    IF inputs.runner = "cli" THEN inputs.increment
    ELSE config_get(inputs.increment, <<"d", "e", "v">>)

run_prerelease_type ==
    IF inputs.runner = "cli" THEN inputs.prerelease_type
    ELSE config_get(inputs.prerelease_type, None)

\* the error, if any, that the validation of the runner raises
validation_error ==
    IF inputs.runner = "cli"
    THEN IF \/ blank(inputs.tag)
            \/ blank(inputs.increment)
            \/ inputs.output_format \notin {<<"f", "u", "l", "l">>, <<"n", "u", "m", "e", "r", "i", "c">>, <<"b", "o", "t", "h">>}
            \/ inputs.prerelease_type # None /\ blank(inputs.prerelease_type)
            \/ truthy(inputs.prerelease_type)
                   /\ ~fullmatch_label(inputs.prerelease_type)
            \/ ~inputs.path_is_dir
         THEN "ValidationError" ELSE "none"
    ELSE IF blank(inputs.tag) THEN "ValueError" ELSE "none"

InitRun ==
    /\ inputs \in Runs
    /\ pc = "validate"
    /\ events = <<>>
    /\ determined = NoResult
    /\ report = NoResult
    /\ existing_tags = {}
    /\ preserve_metadata = FALSE
    /\ normalized_tags_cache = NoCache
    /\ arg_version = None
    /\ arg_increment_type = None
    /\ arg_prerelease_type = None
    /\ call = "__init__"
    /\ result = NoResult
    /\ probes = 0
    /\ builds = 0
    /\ version_string = None
    /\ parsed = NoResult
    /\ formatted = None
    /\ numeric_prerelease_components = NoResult
    /\ operands = {}
    /\ precedence = NotCompared

\* the step is taken: it fails with the error, or the run goes on to next
step(name, error, next) ==
    /\ events' = Append(events, name)
    /\ pc' = IF error = "none" THEN next ELSE "exit"
    /\ report' = IF error = "none" THEN report
                 ELSE [status |-> "error", error |-> error]
    /\ UNCHANGED <<inputs, compare_vars>>

\* _validate_increment_inputs / _validate_github_actions_inputs
Validate ==
    /\ pc = "validate"
    /\ step("validate", validation_error, "parse")
    /\ UNCHANGED <<engine_vars, parser_vars, determined>>

\* original_version = SemanticVersion.parse(tag)
parsed_tag(outcome) ==
    /\ version_string' = inputs.tag
    /\ parsed' = outcome
    /\ step("parse",
            IF outcome.status = "returned" THEN "none" ELSE outcome.error,
            "determine_increment_type")
    /\ UNCHANGED <<engine_vars, formatted, numeric_prerelease_components,
                   determined>>

ParseTag ==
    /\ pc = "parse"
    /\ parsed_tag(parse(inputs.tag))

\* increment_type = VersionIncrementer.determine_increment_type(increment)
determined_as(outcome) ==
    /\ determined' = outcome
    /\ step("determine_increment_type",
            IF outcome.status = "returned" THEN "none" ELSE outcome.error,
            "get_existing_tags")
    /\ UNCHANGED <<engine_vars, parser_vars>>

DetermineIncrementType ==
    /\ pc = "determine_increment_type"
    /\ determined_as(determine_increment_type(run_increment))

\* existing_tags = GitOperations.get_existing_tags(...) when tags are checked,
\* then incrementer = VersionIncrementer(existing_tags, preserve_metadata)
GetExistingTags ==
    /\ pc = "get_existing_tags"
    /\ existing_tags' = IF inputs.check_tags THEN inputs.git_tags ELSE {}
    /\ preserve_metadata' = FALSE
    /\ normalized_tags_cache' = NoCache
    /\ call' = "__init__"
    /\ step("get_existing_tags", "none", "increment")
    /\ UNCHANGED <<arg_version, arg_increment_type, arg_prerelease_type,
                   result, probes, builds, parser_vars, determined>>

\* incremented_version = incrementer.increment(original_version,
\* increment_type, prerelease_type)
ran_increment(self, outcome) ==
    /\ arg_version' = parsed.version
    /\ arg_increment_type' = determined.increment_type
    /\ arg_prerelease_type' = run_prerelease_type
    /\ call' = "increment"
    /\ result' = seen(outcome)
    /\ probes' = outcome.probes
    /\ builds' = builds_of(normalized_tags_cache, existing_tags, probes')
    /\ normalized_tags_cache' =
           IF outcome.probes > 0 /\ existing_tags # {}
           THEN self.cache ELSE normalized_tags_cache
    /\ step("increment",
            IF outcome.status = "returned" THEN "none" ELSE outcome.error,
            "output")
    /\ UNCHANGED <<existing_tags, preserve_metadata, parser_vars, determined>>

RunIncrement ==
    /\ pc = "increment"
    /\ ran_increment(Engine(existing_tags, preserve_metadata,
                            normalized_tags_cache),
                     increment(Engine(existing_tags, preserve_metadata,
                                      normalized_tags_cache),
                               parsed.version, determined.increment_type,
                               run_prerelease_type))

\* _output_increment_results / _output_results
Output ==
    /\ pc = "output"
    /\ events' = Append(events, "output")
    /\ pc' = "exit"
    /\ report' = [status |-> "output",
                  full_version |-> to_string(result.version, TRUE),
                  numeric_version |-> to_string(result.version, FALSE)]
    /\ UNCHANGED <<inputs, engine_vars, parser_vars, compare_vars, determined>>

\* determine_increment_type called by itself on the string of the run
CallDetermineIncrementType ==
    /\ pc = "validate"
    /\ determined' = determine_increment_type(inputs.increment)
    /\ UNCHANGED <<inputs, pc, events, report, engine_vars, parser_vars,
                   compare_vars>>

NextRun ==
    \/ Validate
    \/ ParseTag
    \/ DetermineIncrementType
    \/ GetExistingTags
    \/ RunIncrement
    \/ Output
    \/ CallDetermineIncrementType

SpecRun == InitRun /\ [][NextRun]_vars

(* Claims about the engine *)

\* the version is among the tags, by the normalized form of both
in_use(v) ==
    _normalize_version_string(to_string(v, FALSE)) \in build_cache(existing_tags)

\* what the call returns when no tag exists
default_candidate ==
    increment(Engine({}, preserve_metadata, NoCache), arg_version,
              arg_increment_type, arg_prerelease_type).version

\* C1: when the tags hold the default candidate of the call, a version that
\* increment returns is not among the tags, under normalization, whatever the
\* increment type and the label.
C1_CollisionAvoidance ==
    (call = "increment" /\ result.status = "returned" /\ in_use(default_candidate))
        => ~in_use(result.version)

\* C2: with no tags and no label, the version that increment returns is
\* strictly greater than the version it was given.
C2_MonotonicAdvancement ==
    (/\ call = "increment"
     /\ existing_tags = {}
     /\ arg_prerelease_type = None
     /\ result.status = "returned")
        => compare_precedence(result.version, arg_version) = 1

\* the most lookups the ceilings allow one call: the default candidate, 99
\* patches, and 1000 counters at each of 5 patches
ProbeCeiling == 1 + (MAX_PATCH_ATTEMPTS - 1) + 5 * MAX_PRERELEASE_ATTEMPTS

\* C3: every call of increment ends, with a version or with an error, and
\* makes no more lookups than the ceilings allow, however many tags there are.
C3_BoundedSearch ==
    call = "increment" =>
        /\ result.status \in {"returned", "raised"}
        /\ probes <= ProbeCeiling

\* a call that found every candidate in use has ended with an error, with
\* more tags than the ceilings allow lookups
C3_Witness ==
    /\ call = "increment"
    /\ result.status = "raised"
    /\ probes > 2 * MAX_PRERELEASE_ATTEMPTS
    /\ Cardinality(existing_tags) > ProbeCeiling

\* the label of the call replaces the label of the version
label_switch ==
    /\ truthy(arg_prerelease_type)
    /\ lower(get_prerelease_identifiers(arg_version)[1])
           # lower(arg_prerelease_type)

\* a pre-release is incremented in place and the incremented version is in use
in_place_collision ==
    /\ call = "increment"
    /\ arg_increment_type \in {"PRERELEASE", "DEV"}
    /\ is_prerelease(arg_version)
    /\ ~label_switch
    /\ in_use(default_candidate)

\* C4: when the in-place increment of a pre-release is in use, increment
\* returns label.c at the next patch, label being the first identifier of the
\* incremented pre-release and c the least of 1..1000 whose version is not in
\* use; with all of them in use it raises the search error.
C4_InPlaceCollision ==
    in_place_collision =>
        LET taken == build_cache(existing_tags)
            label == split(default_candidate.prerelease, ".")[1]
            free == {c \in 1..MAX_PRERELEASE_ATTEMPTS :
                        lower(str(arg_version.major) \o dot
                              \o str(arg_version.minor) \o dot
                              \o str(arg_version.patch + 1) \o <<"-">>
                              \o label \o dot \o str(c)) \notin taken}
        IN  IF free = {}
            THEN result.status = "raised" /\ result.error = "RuntimeError"
            ELSE /\ result.status = "returned"
                 /\ core_version(result.version) =
                        <<arg_version.major, arg_version.minor,
                          arg_version.patch + 1>>
                 /\ result.version.prerelease =
                        label \o dot
                        \o str(CHOOSE c \in free : \A d \in free : c <= d)

\* the collision search passed 999 counters in use and returned the last one
C4_Witness ==
    /\ in_place_collision
    /\ result.status = "returned"
    /\ result.version.prerelease = rc \o dot \o str(MAX_PRERELEASE_ATTEMPTS)

\* major.minor.patch as a tag text
core_text(core) == str(core[1]) \o dot \o str(core[2]) \o dot \o str(core[3])

\* the release major.minor.patch is among the tags
core_in_use(core) == core_text(core) \in build_cache(existing_tags)

\* the core of the default candidate of Major, Minor and Patch
default_core ==
    IF arg_increment_type = "MAJOR" THEN <<arg_version.major + 1, 0, 0>>
    ELSE IF arg_increment_type = "MINOR"
    THEN <<arg_version.major, arg_version.minor + 1, 0>>
    ELSE <<arg_version.major, arg_version.minor, arg_version.patch + 1>>

release_increment ==
    call = "increment" /\ arg_increment_type \in {"MAJOR", "MINOR", "PATCH"}

\* C11: when the default candidate is not in use, Major returns
\* (major+1, 0, 0), Minor (major, minor+1, 0) and Patch (major, minor,
\* patch+1), each with no pre-release, whether or not the input had one.
C11_DefaultCandidates ==
    (release_increment /\ ~core_in_use(default_core)) =>
        /\ result.status = "returned"
        /\ core_version(result.version) = default_core
        /\ result.version.prerelease = None

\* Patch of a pre-release, with no tags, returned a release
C11_Witness ==
    /\ release_increment
    /\ arg_increment_type = "PATCH"
    /\ is_prerelease(arg_version)
    /\ existing_tags = {}
    /\ result.status = "returned"
    /\ result.version.prerelease = None

\* Major or Minor was asked for and its default candidate is in use
major_minor_collision ==
    /\ call = "increment"
    /\ arg_increment_type \in {"MAJOR", "MINOR"}
    /\ core_in_use(default_core)

\* C12: when the default candidate of Major or Minor is in use, increment
\* returns the release at the candidate's major and minor with the least
\* patch of 1..99 that is not in use; only when all 99 are in use does it
\* search the pre-releases dev.c at the core of the candidate, returning the
\* least c of 1..1000 not in use when there is one.
C12_MajorMinorFallback ==
    major_minor_collision =>
        LET taken == build_cache(existing_tags)
            at(p) == <<default_core[1], default_core[2], p>>
            free == {p \in 1..(MAX_PATCH_ATTEMPTS - 1) : core_text(at(p)) \notin taken}
            counters == {c \in 1..MAX_PRERELEASE_ATTEMPTS :
                            core_text(default_core) \o <<"-">> \o dev \o dot \o str(c)
                                \notin taken}
        IN  IF free # {}
            THEN /\ result.status = "returned"
                 /\ core_version(result.version) =
                        at(CHOOSE p \in free : \A q \in free : p <= q)
                 /\ result.version.prerelease = None
            ELSE counters # {} =>
                     /\ result.status = "returned"
                     /\ core_version(result.version) = default_core
                     /\ result.version.prerelease =
                            dev \o dot
                            \o str(CHOOSE c \in counters : \A d \in counters : c <= d)

\* the candidate and the patches 1..99 were all in use and a dev pre-release
\* at the core of the candidate was returned
C12_Witness ==
    /\ major_minor_collision
    /\ \A p \in 1..(MAX_PATCH_ATTEMPTS - 1) :
           core_in_use(<<default_core[1], default_core[2], p>>)
    /\ result.status = "returned"
    /\ core_version(result.version) = default_core
    /\ result.version.prerelease = dev \o <<".", "1">>

\* Patch was asked for and the release of the next patch is in use
patch_collision ==
    /\ call = "increment"
    /\ arg_increment_type = "PATCH"
    /\ core_in_use(default_core)

\* the label of the call, dev when there is none
label_or_dev ==
    IF truthy(arg_prerelease_type) THEN arg_prerelease_type ELSE dev

C14_PrereleaseTagsDoNotBlock ==
    patch_collision =>
        LET at(q) == <<arg_version.major, arg_version.minor, q>>
            free == {q \in (arg_version.patch + 2)..
                           (arg_version.patch + MAX_PATCH_ATTEMPTS) :
                        ~core_in_use(at(q))}
        IN  free # {} =>
                /\ result.status = "returned"
                /\ core_version(result.version) =
                       at(CHOOSE q \in free : \A r \in free : q <= r)
                /\ result.version.prerelease = None

\* Prerelease or Dev was asked for a version that is no pre-release
first_prerelease_call ==
    /\ call = "increment"
    /\ arg_increment_type \in {"PRERELEASE", "DEV"}
    /\ ~is_prerelease(arg_version)

\* label.c at patch q of the major and minor of the version, as a tag text
window_text(q, c) ==
    lower(core_text(<<arg_version.major, arg_version.minor, q>>) \o <<"-">>
          \o label_or_dev \o dot \o str(c))

\* the patches of the window patch+1..patch+5 with a counter of 1..limit
\* that is not in use
open_patches(limit) ==
    LET taken == build_cache(existing_tags)
    IN  {q \in (arg_version.patch + 1)..(arg_version.patch + 5) :
            \E c \in 1..limit : window_text(q, c) \notin taken}

\* the result is label.c at patch q for the first pair (q, c) not in use,
\* q ascending over patch+1..patch+5 and c ascending over 1..limit
first_open_pair_returned(limit) ==
    LET taken == build_cache(existing_tags)
        open == open_patches(limit)
        q == CHOOSE x \in open : \A y \in open : x <= y
        c == CHOOSE x \in 1..limit :
                 /\ window_text(q, x) \notin taken
                 /\ \A y \in 1..(x - 1) : window_text(q, y) \in taken
    IN  /\ result.status = "returned"
        /\ core_version(result.version) =
               <<arg_version.major, arg_version.minor, q>>
        /\ result.version.prerelease = label_or_dev \o dot \o str(c)

\* C15 as stated: for a version that is no pre-release, Prerelease and Dev
\* return label.c at patch q for the first pair not in use, q over
\* patch+1..patch+5 and for each q the counters c over 1..1000.
C15_FirstPrereleaseSearch1000 ==
    (first_prerelease_call /\ open_patches(MAX_PRERELEASE_ATTEMPTS) # {})
        => first_open_pair_returned(MAX_PRERELEASE_ATTEMPTS)

\* C15 amended: for a version that is no pre-release, Prerelease and Dev
\* return label.c at patch q for the first pair not in use, q over
\* patch+1..patch+5 and for each q the counters c over 1..100; label is the
\* label of the call, dev when there is none.
C15_FirstPrereleaseSearch ==
    (first_prerelease_call /\ open_patches(MAX_PATCH_ATTEMPTS) # {})
        => first_open_pair_returned(MAX_PATCH_ATTEMPTS)

\* with the counters 1..100 of patch+1 in use the search went on to patch+2
C15_Witness ==
    /\ first_prerelease_call
    /\ \A c \in 1..MAX_PATCH_ATTEMPTS :
           window_text(arg_version.patch + 1, c) \in build_cache(existing_tags)
    /\ result.status = "returned"
    /\ core_version(result.version) =
           <<arg_version.major, arg_version.minor, arg_version.patch + 2>>
    /\ result.version.prerelease = dev \o <<".", "1">>

\* C16: for a version that is no pre-release, when every candidate of the
\* window is in use, Prerelease returns label.1 at patch+1 of the same major
\* and minor, label being the label of the call, dev when there is none.
C16_FirstPrereleaseLastResort ==
    (first_prerelease_call /\ open_patches(MAX_PRERELEASE_ATTEMPTS) = {}) =>
        /\ result.status = "returned"
        /\ core_version(result.version) =
               <<arg_version.major, arg_version.minor, arg_version.patch + 1>>
        /\ result.version.prerelease = label_or_dev \o <<".", "1">>

\* Prerelease or Dev was asked for a version that is a pre-release
prerelease_call ==
    /\ call = "increment"
    /\ arg_increment_type \in {"PRERELEASE", "DEV"}
    /\ is_prerelease(arg_version)

\* what the call gives when made with no label
unlabelled_outcome ==
    increment(Engine(existing_tags, preserve_metadata, NoCache), arg_version,
              arg_increment_type, None)

\* C17: for a pre-release and a label that differs, letter case ignored, from
\* its leading identifier, Prerelease returns label.1 at the same major, minor
\* and patch, dropping the identifiers and the counter of the version; with a
\* label equal to the leading identifier, letter case ignored, or with no
\* label, the result is that of incrementing in place, as with no label.
C17_TypeTransition ==
    prerelease_call =>
        IF label_switch
        THEN /\ result.status = "returned"
             /\ core_version(result.version) = core_version(arg_version)
             /\ result.version.prerelease = arg_prerelease_type \o <<".", "1">>
        ELSE /\ result.status = unlabelled_outcome.status
             /\ result.status = "returned" =>
                    result.version = unlabelled_outcome.version

\* rc.9 was given with the label beta and beta.1 came back at the same core
C17_Witness ==
    /\ prerelease_call
    /\ arg_version.prerelease = rc \o <<".", "9">>
    /\ arg_prerelease_type = beta
    /\ result.status = "returned"
    /\ result.version.prerelease = beta \o <<".", "1">>
    /\ core_version(result.version) = core_version(arg_version)

\* the identifier is numeric or ends in digits
ends_in_digits(identifier) ==
    Len(identifier) > 0 /\ identifier[Len(identifier)] \in Digits

\* the identifier with the number it ends in increased by one
counted_up(identifier) ==
    LET n == trailing_digits(identifier)
        head == SubSeq(identifier, 1, Len(identifier) - n)
        number == int(SubSeq(identifier, Len(identifier) - n + 1,
                             Len(identifier)))
    IN  head \o str(number + 1)

\* a pre-release is incremented in place and the incremented version is free
in_place_increment ==
    /\ prerelease_call
    /\ ~label_switch
    /\ ~in_use(default_candidate)

\* C18: a pre-release incremented in place, with the incremented version not in
\* use, keeps major, minor and patch; when no identifier is numeric or ends in
\* digits the pre-release is the old one with ".1" appended; otherwise the
\* rightmost identifier that is numeric or ends in digits has its number
\* increased by one, its head kept, and no other identifier changes.
C18_InPlaceIncrement ==
    in_place_increment =>
        LET old == get_prerelease_identifiers(arg_version)
            counted == {k \in 1..Len(old) : ends_in_digits(old[k])}
        IN  /\ result.status = "returned"
            /\ core_version(result.version) = core_version(arg_version)
            /\ IF counted = {}
               THEN result.version.prerelease
                        = arg_version.prerelease \o <<".", "1">>
               ELSE LET new == get_prerelease_identifiers(result.version)
                        rightmost == CHOOSE k \in counted :
                                         \A j \in counted : j <= k
                    IN  /\ Len(new) = Len(old)
                        /\ \A j \in 1..Len(old) :
                               new[j] = IF j = rightmost THEN counted_up(old[j])
                                        ELSE old[j]

\* RC-SNAPSHOT.12.dev1 was incremented in place to RC-SNAPSHOT.12.dev2
C18_Witness ==
    /\ in_place_increment
    /\ get_prerelease_identifiers(arg_version)
           = << <<"R", "C", "-", "S", "N", "A", "P", "S", "H", "O", "T">>,
                <<"1", "2">>, <<"d", "e", "v", "1">> >>
    /\ result.status = "returned"
    /\ get_prerelease_identifiers(result.version)
           = << <<"R", "C", "-", "S", "N", "A", "P", "S", "H", "O", "T">>,
                <<"1", "2">>, <<"d", "e", "v", "2">> >>

\* C19: a version that increment returns has no metadata when metadata is not
\* preserved, and the metadata of the version it was given when it is, whatever
\* the increment type, the version and the tags.
C19_MetadataFlag ==
    (call = "increment" /\ result.status = "returned") =>
        result.version.metadata
            = IF preserve_metadata THEN arg_version.metadata ELSE None

\* the versions that the last call returned
returned_versions ==
    IF result.status # "returned" THEN {}
    ELSE IF call = "increment" THEN {result.version}
    ELSE IF call = "suggest_next_version"
    THEN {result.suggestions[k] : k \in 1..Len(result.suggestions)}
    ELSE {}

\* C20: every version that increment or suggest_next_version returns has the
\* prefix of the version it was given, "v", "V" or none, whatever the increment
\* type, the label and the tags.
C20_PrefixPreserved ==
    \A v \in returned_versions : v.prefix = arg_version.prefix

\* the suggestions for "v"-prefixed pre-release alpha.1, with its patch
\* fallback dev.1 in use, all bear "v": the progression beta.1 first
C20_Witness ==
    /\ call = "suggest_next_version"
    /\ arg_increment_type = "PRERELEASE"
    /\ arg_version.prefix = <<"v">>
    /\ is_prerelease(arg_version)
    /\ _normalize_version_string(
           prerelease_tag(arg_version.major, arg_version.minor,
                          arg_version.patch + 1, dev, 1))
           \in build_cache(existing_tags)
    /\ result.status = "returned"
    /\ Len(result.suggestions) > 1
    /\ result.suggestions[1].prerelease = beta \o <<".", "1">>
    /\ \A k \in 1..Len(result.suggestions) :
           result.suggestions[k].prefix = <<"v">>

\* the engine with the tags it holds and a cache built from them
fresh_engine == Engine(existing_tags, preserve_metadata, NoCache)

\* C21: a call made with DEV gives what the same call gives with PRERELEASE,
\* for increment and for suggest_next_version, whatever the version, the label
\* and the tags.
C21_DevIsPrerelease ==
    arg_increment_type = "DEV" =>
        /\ call = "increment" =>
               result = seen(increment(fresh_engine, arg_version, "PRERELEASE",
                                       arg_prerelease_type))
        /\ call = "suggest_next_version" =>
               result = seen(suggest_next_version(fresh_engine, arg_version,
                                                  "PRERELEASE"))

\* the entries of a list in order, one that is formatted as an earlier entry
\* left out
RECURSIVE distinct_formatted(_)
distinct_formatted(versions) ==
    IF Len(versions) = 0 THEN <<>>
    ELSE LET earlier == distinct_formatted(SubSeq(versions, 1, Len(versions) - 1))
             last == versions[Len(versions)]
         IN  IF \E k \in 1..Len(earlier) :
                    to_string(earlier[k], TRUE) = to_string(last, TRUE)
             THEN earlier
             ELSE Append(earlier, last)

\* the next stage of the progression for the version: beta.1 after dev or
\* alpha, rc.1 after beta, at the same major, minor and patch
next_stage(version) ==
    IF ~is_prerelease(version) THEN <<>>
    ELSE LET leading == lower(get_prerelease_identifiers(version)[1])
             stage == IF leading \in {dev, alpha} THEN beta
                      ELSE IF leading = beta THEN rc
                      ELSE None
         IN  IF stage = None THEN <<>>
             ELSE <<SemanticVersion(version.major, version.minor,
                                    version.patch, stage \o <<".", "1">>,
                                    version.metadata, version.prefix)>>

\* the first pre-release candidates that were made, in the order of the labels
candidates_made(outcomes) ==
    LET made == {k \in 1..Len(outcomes) : outcomes[k].status = "returned"}
        nth(n) == CHOOSE k \in made :
                      Cardinality({j \in made : j < k}) = n - 1
    IN  [n \in 1..Cardinality(made) |-> outcomes[nth(n)].version]

\* the call returned the one version of the increment, or raised as it did
alone_as_incremented(incremented) ==
    IF incremented.status = "returned"
    THEN /\ result.status = "returned"
         /\ result.suggestions = <<incremented.version>>
    ELSE result = incremented

\* C22: for PRERELEASE, suggest_next_version returns the next stage of the
\* progression (for a pre-release whose leading identifier is dev, alpha or
\* beta, and for no other) followed by the first pre-release candidates for
\* dev, alpha, beta and rc in this order, no entry formatted as an earlier one;
\* for MAJOR, MINOR and PATCH it returns the one version that increment returns.
C22_SuggestionList ==
    (call = "suggest_next_version" /\ arg_increment_type # "DEV") =>
        IF arg_increment_type = "PRERELEASE"
        THEN /\ result.status = "returned"
             /\ result.suggestions
                    = distinct_formatted(
                          next_stage(arg_version)
                          \o candidates_made(strategy_outcomes(fresh_engine,
                                                               arg_version)))
        ELSE alone_as_incremented(
                 seen(increment(fresh_engine, arg_version, arg_increment_type,
                                None)))

\* the normalized forms of the tags the engine holds now
normalized_now == build_cache(existing_tags)

\* C23: whenever the engine has a cache, it is the set of normalized forms of
\* the tags it holds now; and a lookup answers true exactly when the normalized
\* form of the candidate is among the normalized forms of those tags, also
\* after the tags were replaced.
C23_CacheCoherence ==
    /\ normalized_tags_cache # NoCache => normalized_tags_cache = normalized_now
    /\ call = "_version_exists" =>
           result.exists
               = (_normalize_version_string(to_string(result.candidate, FALSE))
                      \in normalized_now)

\* v1.2.4 was among the tags the engine was made with for v1.2.3; after they
\* were replaced, the lookup of v1.2.4 answers from the new tags
C23_Witness ==
    /\ call = "_version_exists"
    /\ to_string(arg_version, TRUE) = <<"v", "1", ".", "2", ".", "3">>
    /\ existing_tags = TakenDefaults
    /\ to_string(result.candidate, TRUE) = <<"v", "1", ".", "2", ".", "4">>
    /\ ~result.exists
    /\ normalized_tags_cache = normalized_now

\* s without one leading "v" or "V"
unprefixed(s) ==
    IF Len(s) > 0 /\ s[1] \in {"v", "V"} THEN SubSeq(s, 2, Len(s)) ELSE s

\* s without what starts at its first "+"
without_metadata(s) ==
    LET pluses == {p \in 1..Len(s) : s[p] = "+"}
    IN  IF pluses = {} THEN s
        ELSE SubSeq(s, 1, (CHOOSE p \in pluses : \A q \in pluses : p <= q) - 1)

\* the identifier under which a tag or a candidate is known
normal_form(s) == lower(without_metadata(unprefixed(s)))

\* C24: a lookup answers true exactly when some tag, with one leading "v" or
\* "V" and everything from its first "+" removed and lower-cased, equals the
\* candidate formatted without prefix and treated the same way; so the prefix,
\* the metadata and the letter case of the tags and of the candidate do not
\* count.
C24_LookupNormalization ==
    call = "_version_exists" =>
        result.exists
            = (\E tag \in existing_tags :
                   normal_form(tag)
                       = normal_form(to_string(result.candidate, FALSE)))

\* 1.0.0-RC.1 is found through the tag V1.0.0-rc.1, and no tag is 1.0.0-RC.1
C24_Witness ==
    /\ call = "_version_exists"
    /\ result.exists
    /\ to_string(result.candidate, TRUE)
           = <<"1", ".", "0", ".", "0", "-", "R", "C", ".", "1">>
    /\ <<"V", "1", ".", "0", ".", "0", "-", "r", "c", ".", "1">> \in existing_tags
    /\ to_string(result.candidate, TRUE) \notin existing_tags

\* the calls that look tags up
Lookups == {"increment", "suggest_next_version", "_version_exists"}

\* what a step of the engine does to the normalized tags
lazy_single_build ==
    /\ call' \in Lookups =>
           /\ builds' <= 1
           /\ (builds' = 1) <=> (/\ normalized_tags_cache = NoCache
                                 /\ probes' > 0
                                 /\ existing_tags # {})
           /\ normalized_tags_cache' =
                  IF builds' = 1 THEN build_cache(existing_tags)
                  ELSE normalized_tags_cache
    /\ (normalized_tags_cache # NoCache /\ normalized_tags_cache' = NoCache)
           => call' = "update_existing_tags"

\* C27: the normalized tags are absent after construction and after every
\* update_existing_tags; a call builds them exactly when it makes a lookup
\* against a non-empty tag set while they are absent, and then once, however
\* many candidates it probes; once built they stay as they are until
\* update_existing_tags, the only call that discards them.
C27_LazySingleBuild ==
    /\ [](call \in {"__init__", "update_existing_tags"}
              => normalized_tags_cache = NoCache /\ builds = 0)
    /\ [][lazy_single_build]_vars

\* an increment that probed more than a hundred candidates built them once
C27_Witness ==
    /\ call = "increment"
    /\ probes > 100
    /\ builds = 1
    /\ normalized_tags_cache = build_cache(existing_tags)

\* what a step of the engine leaves as it was
frame ==
    /\ call' \in Lookups =>
           /\ arg_version' = arg_version
           /\ existing_tags' = existing_tags
           /\ preserve_metadata' = preserve_metadata
    /\ existing_tags' # existing_tags => call' = "update_existing_tags"

\* C30: increment, suggest_next_version and _version_exists leave the version
\* they were given and the tags of the engine as they were, the normalized
\* tags being the only state of the engine they may change; and only
\* update_existing_tags changes the tags.
C30_Frame == [][frame]_vars

\* suggestions were made for a version, with the normalized tags built, and
\* the version and the tags are among those the caller gave
C30_Witness ==
    /\ call = "suggest_next_version"
    /\ result.status = "returned"
    /\ builds = 1
    /\ normalized_tags_cache # NoCache
    /\ arg_version \in Versions
    /\ existing_tags \in TagSets

(* Claims about the command *)

\* s from its first to its last character that is no whitespace
trimmed(s) ==
    LET kept == {i \in 1..Len(s) : s[i] \notin Whitespace}
    IN  IF kept = {} THEN <<>>
        ELSE SubSeq(s, CHOOSE i \in kept : \A j \in kept : i <= j,
                    CHOOSE i \in kept : \A j \in kept : j <= i)

\* the string that determine_increment_type was last given
determined_string ==
    IF \E i \in 1..Len(events) : events[i] = "determine_increment_type"
    THEN run_increment ELSE inputs.increment

\* the kind that a lower-cased, trimmed string names, "none" when it names none
kind_named(name) ==
    IF name = <<"m", "a", "j", "o", "r">> THEN "MAJOR"
    ELSE IF name = <<"m", "i", "n", "o", "r">> THEN "MINOR"
    ELSE IF name = <<"p", "a", "t", "c", "h">> THEN "PATCH"
    ELSE IF name \in {<<"p", "r", "e", "r", "e", "l", "e", "a", "s", "e">>, <<"p", "r", "e">>, <<"p", "r", "e", "r", "e", "l">>} THEN "PRERELEASE"
    ELSE IF name = <<"d", "e", "v">> THEN "DEV"
    ELSE "none"

\* C25: determine_increment_type, on its string lower-cased and trimmed of
\* whitespace, returns the kind for major, minor, patch, prerelease and dev,
\* PRERELEASE for pre and prerel, and raises ValueError, returning no kind, for
\* every other string, the empty one included.
C25_KindMapping ==
    determined.status # "none" =>
        LET kind == kind_named(lower(trimmed(determined_string)))
        IN  IF kind = "none"
            THEN determined = [status |-> "raised", error |-> "ValueError"]
            ELSE determined = [status |-> "returned", increment_type |-> kind]

\* "Pre" was given and PRERELEASE came back
C25_Witness ==
    /\ determined_string = <<"P", "r", "e">>
    /\ determined = [status |-> "returned", increment_type |-> "PRERELEASE"]

\* the label of the call is absent or matches [A-Za-z0-9.-]+
label_allowed ==
    arg_prerelease_type = None \/ fullmatch_label(arg_prerelease_type)

\* the version formats to a string that parse accepts and gives back as the
\* same major, minor, patch, pre-release, metadata and prefix
parses_back(version) ==
    LET back == parse(to_string(version, TRUE))
    IN  /\ back.status = "returned"
        /\ back.version.major = version.major
        /\ back.version.minor = version.minor
        /\ back.version.patch = version.patch
        /\ back.version.prerelease = version.prerelease
        /\ back.version.metadata = version.metadata
        /\ back.version.prefix = version.prefix

\* C26: the version that increment returns for a label matching
\* [A-Za-z0-9.-]+, or for no label, formats to a string that parse accepts
\* and that parses back to the same major, minor, patch, pre-release,
\* metadata and prefix.
C26_ValidResults ==
    (call = "increment" /\ result.status = "returned" /\ label_allowed)
        => parses_back(result.version)

\* the same for the labels whose dot-separated identifiers are all non-empty
C26_ValidResultsOfWellFormedLabels ==
    (/\ call = "increment"
     /\ result.status = "returned"
     /\ label_allowed
     /\ arg_prerelease_type # None
            => \A i \in 1..Len(arg_prerelease_type) :
                   arg_prerelease_type[i] = "."
                       => /\ 1 < i /\ i < Len(arg_prerelease_type)
                          /\ arg_prerelease_type[i + 1] # ".")
        => parses_back(result.version)

\* the increment string of the run names no kind
kind_unrecognized == kind_named(lower(trimmed(run_increment))) = "none"

\* the label of the run has a character outside [A-Za-z0-9.-]
label_disallowed ==
    /\ run_prerelease_type # None
    /\ \E i \in 1..Len(run_prerelease_type) :
           run_prerelease_type[i] \notin IdentChars \cup {"."}

\* the run took the step
took(name) == \E i \in 1..Len(events) : events[i] = name

\* C28: a run whose increment string names no kind, or whose label has a
\* character outside [A-Za-z0-9.-], ends in an error without having parsed
\* the tag, retrieved the existing tags or called increment, and writes no
\* version out, on the command line and under GitHub Actions alike.
C28_ValidationFirst ==
    (pc = "exit" /\ (kind_unrecognized \/ label_disallowed))
        => /\ report.status = "error"
           /\ ~took("parse")
           /\ ~took("get_existing_tags")
           /\ ~took("increment")
           /\ ~took("output")

\* the same on the command line, for the label alone
C28_LabelFirstOnCommandLine ==
    (pc = "exit" /\ inputs.runner = "cli" /\ label_disallowed)
        => /\ report.status = "error"
           /\ ~took("parse")
           /\ ~took("get_existing_tags")
           /\ ~took("increment")
           /\ ~took("output")

\* an increment string that names no kind never gets past
\* determine_increment_type
C28_NoResultForUnrecognizedKind ==
    (pc = "exit" /\ kind_unrecognized)
        => /\ report.status = "error"
           /\ ~took("get_existing_tags")
           /\ ~took("increment")
           /\ ~took("output")

(* Comparing versions: some parsed versions are compared pairwise with
   compare_precedence and with == *)

\* longest chain of pre-release identifiers drawn from IdentifierPool
MaxChain == 2

IdentifierPool == { <<"2">>, <<"1", "0">>, <<"a">> }

RECURSIVE Chains(_)
Chains(n) ==
    IF n = 1 THEN IdentifierPool
    ELSE Chains(n - 1) \cup
         {c \o dot \o i : c \in Chains(n - 1), i \in IdentifierPool}

bare_tag(major, minor, patch) ==
    str(major) \o dot \o str(minor) \o dot \o str(patch)

CompareTexts ==
    {bare_tag(1, 0, 0) \o <<"-">> \o c : c \in Chains(MaxChain)}
    \cup { bare_tag(1, 0, 0), bare_tag(1, 0, 1), bare_tag(1, 1, 0),
           bare_tag(2, 0, 0),
           bare_tag(1, 0, 1) \o <<"-", "a">>,
           bare_tag(1, 0, 0) \o <<"+", "m">>,
           bare_tag(1, 0, 0) \o <<"+", "n">>,
           <<"v">> \o bare_tag(1, 0, 0),
           <<"V">> \o bare_tag(1, 0, 0) \o <<"-", "a", "+", "m">>,
           <<"v">> \o bare_tag(1, 0, 0) \o <<"-", "a">>,
           bare_tag(1, 0, 0) \o <<"-", "a", "+", "n">>,
           bare_tag(1, 0, 0) \o <<"-", "0", "2">>,
           bare_tag(1, 0, 0) \o <<"-", "0", "2", ".", "a">>,
           bare_tag(1, 0, 0) \o <<"-", "a", "b">>,
           bare_tag(1, 0, 0) \o <<"-", "B">>,
           bare_tag(1, 0, 0) \o <<"-", "a", ".", "B">>,
           bare_tag(1, 0, 0) \o <<"-", "B", ".", "2">>,
           bare_tag(1, 0, 0) \o <<"-", "a", "-">>,
           bare_tag(1, 0, 0) \o <<"-", "a", ".", "a", "-">> }

CompareVersions == {parse(s).version : s \in CompareTexts}

InitCompare ==
    /\ operands \in {{a, b, c} : a \in CompareVersions, b \in CompareVersions,
                                 c \in CompareVersions}
    /\ precedence = NotCompared
    /\ call = "__init__"
    /\ existing_tags = {}
    /\ preserve_metadata = FALSE
    /\ normalized_tags_cache = NoCache
    /\ arg_version = None
    /\ arg_increment_type = None
    /\ arg_prerelease_type = None
    /\ result = NoResult
    /\ probes = 0
    /\ builds = 0
    /\ version_string = None
    /\ parsed = NoResult
    /\ formatted = None
    /\ numeric_prerelease_components = NoResult
    /\ no_run

\* a.compare_precedence(b) for every pair of operands
ComparePrecedence ==
    /\ precedence.cmp = <<>>
    /\ precedence' =
           [precedence EXCEPT
               !.cmp = [pair \in operands \X operands |->
                            compare_precedence(pair[1], pair[2])]]
    /\ call' = "compare_precedence"
    /\ UNCHANGED <<existing_tags, preserve_metadata, normalized_tags_cache,
                   arg_version, arg_increment_type, arg_prerelease_type,
                   result, probes, builds, parser_vars, operands, entry_vars>>

\* a == b for every pair of operands
Equals ==
    /\ precedence.eq = <<>>
    /\ precedence' =
           [precedence EXCEPT
               !.eq = [pair \in operands \X operands |-> eq(pair[1], pair[2])]]
    /\ call' = "__eq__"
    /\ UNCHANGED <<existing_tags, preserve_metadata, normalized_tags_cache,
                   arg_version, arg_increment_type, arg_prerelease_type,
                   result, probes, builds, parser_vars, operands, entry_vars>>

NextCompare == ComparePrecedence \/ Equals

SpecCompare == InitCompare /\ [][NextCompare]_vars

(* Claims about comparing versions *)

compared == precedence.cmp # <<>>

same_core(a, b) == core_version(a) = core_version(b)

\* C5: compare_precedence is reflexive, antisymmetric and transitive over the
\* parsed versions, and a version with a pre-release compares strictly below
\* the version with the same major, minor and patch and no pre-release.
C5_TotalOrder ==
    compared =>
        \A a \in operands : \A b \in operands :
            /\ precedence.cmp[a, b] \in {-1, 0, 1}
            /\ precedence.cmp[a, a] = 0
            /\ precedence.cmp[a, b] = -precedence.cmp[b, a]
            /\ \A c \in operands :
                   (precedence.cmp[a, b] <= 0 /\ precedence.cmp[b, c] <= 0)
                       => precedence.cmp[a, c] <= 0
            /\ (same_core(a, b) /\ is_prerelease(a) /\ ~is_prerelease(b))
                   => precedence.cmp[a, b] = -1

\* two pre-releases and their release have been compared and are strictly ordered
C5_Witness ==
    /\ compared
    /\ \E a \in operands : \E b \in operands : \E c \in operands :
           /\ same_core(a, b) /\ same_core(b, c)
           /\ is_prerelease(a) /\ is_prerelease(b) /\ ~is_prerelease(c)
           /\ precedence.cmp[a, b] = -1
           /\ precedence.cmp[b, c] = -1
           /\ precedence.cmp[a, c] = -1

\* a and b differ at most in metadata and prefix
same_but_metadata_and_prefix(a, b) ==
    /\ same_core(a, b)
    /\ a.prerelease = b.prerelease

\* C7: two versions with the same major, minor, patch and pre-release that
\* differ only in metadata or prefix compare equal, and == holds for them.
C7_MetadataPrefixIrrelevance ==
    (compared /\ precedence.eq # <<>>) =>
        \A a \in operands : \A b \in operands :
            same_but_metadata_and_prefix(a, b) =>
                (precedence.cmp[a, b] = 0 /\ precedence.eq[a, b])

\* two versions differing in both metadata and prefix have been compared
C7_Witness ==
    /\ compared
    /\ precedence.eq # <<>>
    /\ \E a \in operands : \E b \in operands :
           /\ same_but_metadata_and_prefix(a, b)
           /\ a.metadata # b.metadata
           /\ a.prefix # b.prefix
           /\ precedence.eq[a, b]

\* x sorts before y by the ASCII codes of their characters
ascii_less(x, y) ==
    \E k \in 1..(Len(x) + 1) :
        /\ k <= Len(y)
        /\ \A i \in 1..(k - 1) : x[i] = y[i]
        /\ (k <= Len(x) => Ord[x[k]] < Ord[y[k]])

\* the order of two identifiers at one position
identifier_order(x, y) ==
    IF isdigit(x) /\ isdigit(y)
    THEN (IF int(x) < int(y) THEN -1 ELSE IF int(x) > int(y) THEN 1 ELSE 0)
    ELSE IF isdigit(x) THEN -1
    ELSE IF isdigit(y) THEN 1
    ELSE IF ascii_less(x, y) THEN -1
    ELSE IF ascii_less(y, x) THEN 1
    ELSE 0

\* the order of two identifier sequences at position i
position_order(ids1, ids2, i) ==
    IF i > Len(ids1) THEN -1
    ELSE IF i > Len(ids2) THEN 1
    ELSE identifier_order(ids1[i], ids2[i])

\* the order decided by the first position where the sequences differ
first_difference_order(ids1, ids2) ==
    LET longest == IF Len(ids1) > Len(ids2) THEN Len(ids1) ELSE Len(ids2)
        differing == {i \in 1..longest : position_order(ids1, ids2, i) # 0}
    IN  IF differing = {} THEN 0
        ELSE position_order(ids1, ids2,
                 CHOOSE i \in differing : \A j \in differing : i <= j)

\* C8: for two pre-releases of the same major, minor and patch the result is
\* decided by the first position where the identifier sequences differ: the
\* sequence that has ended is lower, a numeric identifier is lower than a
\* non-numeric one, two numeric identifiers compare by value, two non-numeric
\* ones by ASCII code; with no differing position the versions are equal.
\* Two numeric identifiers of equal value (02 and 2) do not differ.
C8_PrereleasePrecedence ==
    compared =>
        \A a \in operands : \A b \in operands :
            (same_core(a, b) /\ is_prerelease(a) /\ is_prerelease(b)) =>
                precedence.cmp[a, b] =
                    first_difference_order(split(a.prerelease, "."),
                                           split(b.prerelease, "."))

\* 2 against 10, a numeric against a non-numeric identifier, and a sequence
\* against its own extension have all been compared
C8_Witness ==
    /\ compared
    /\ \E a \in operands : \E b \in operands : \E c \in operands :
           /\ a.prerelease = <<"2">>
           /\ b.prerelease = <<"1", "0">>
           /\ c.prerelease = <<"1", "0", ".", "a">>
           /\ precedence.cmp[a, b] = -1
           /\ precedence.cmp[b, c] = -1

(* Claims about the parser *)

no_surrounding_whitespace(s) ==
    Len(s) = 0 \/ (s[1] \notin Whitespace /\ s[Len(s)] \notin Whitespace)

\* s is t with whitespace, and nothing else, added before and after it
padded_with_whitespace(s, t) ==
    \E k \in 0..(Len(s) - Len(t)) :
        /\ SubSeq(s, k + 1, k + Len(t)) = t
        /\ \A i \in 1..k : s[i] \in Whitespace
        /\ \A i \in (k + Len(t) + 1)..Len(s) : s[i] \in Whitespace

\* C6 as stated: whenever parse accepts a string, formatting the parsed
\* version with its prefix gives back that string character for character.
C6_RoundTripExact ==
    formatted # None => formatted = version_string

\* C6 amended: whenever parse accepts a string, formatting the parsed version
\* with its prefix gives back that string without its leading and trailing
\* whitespace: the prefix, the numbers, the pre-release and the metadata are
\* reproduced character for character, and the result is the input itself
\* when the input has no surrounding whitespace.
C6_RoundTripTrimmed ==
    formatted # None =>
        /\ no_surrounding_whitespace(formatted)
        /\ padded_with_whitespace(version_string, formatted)
        /\ (no_surrounding_whitespace(version_string)
                => formatted = version_string)

\* a version with prefix, pre-release and metadata has been parsed and formatted
C6_Witness ==
    /\ formatted # None
    /\ parsed.version.prefix = <<"V">>
    /\ parsed.version.prerelease # None
    /\ parsed.version.metadata # None
    /\ formatted = version_string

\* the input is no version: absent, too long, or not matching the grammar
Malformed(s) ==
    \/ s = None
    \/ Len(s) > MAX_VERSION_LENGTH
    \/ ~SEMVER_PATTERN_match(strip(s)).match

\* C9: every malformed input, and every input of more than 1000 characters,
\* makes parse fail, and always with an error of the ValueError family.
C9_MalformedIsValueError ==
    (parsed # NoResult /\ Malformed(version_string)) =>
        (parsed.status = "raised" /\ parsed.error \in ValueErrorFamily)

\* C10: empty or absent input and over-long input fail with two different
\* errors, and an input of more than 1000 characters, raw or trimmed, fails
\* with the length error without the pattern having been applied to it.
C10_LengthBeforePattern ==
    parsed # NoResult =>
        /\ (version_string = None \/ Len(version_string) = 0) =>
               (parsed.status = "raised" /\ parsed.error = "ValueError"
                    /\ ~parsed.matched)
        /\ (version_string # None /\ Len(version_string) > MAX_VERSION_LENGTH) =>
               (parsed.status = "raised" /\ parsed.error = "SecurityError"
                    /\ ~parsed.matched)

\* an over-long input whose trimmed text would match the pattern was rejected
C10_Witness ==
    /\ version_string # None
    /\ Len(version_string) > MAX_VERSION_LENGTH
    /\ SEMVER_PATTERN_match(strip(version_string)).match
    /\ parsed.status = "raised"

\* the number written by the digits the identifier ends in
number_at_end(identifier) ==
    LET start == CHOOSE i \in 1..Len(identifier) :
                     /\ \A j \in i..Len(identifier) : identifier[j] \in Digits
                     /\ i = 1 \/ identifier[i - 1] \notin Digits
    IN  int(SubSeq(identifier, start, Len(identifier)))

\* C29: find_numeric_prerelease_components returns one entry <<position,
\* identifier, value>> for exactly the pre-release identifiers that end in a
\* digit (the all-digit ones included), with the position counted from zero,
\* the identifier as it is written and the value the number its trailing
\* digits write; the entries are in strictly ascending position, and there
\* is none for a version without a pre-release.
C29_NumericComponents ==
    numeric_prerelease_components.status = "returned" =>
        LET identifiers == get_prerelease_identifiers(parsed.version)
            counted == {k \in 1..Len(identifiers) :
                           ends_in_digits(identifiers[k])}
            found == numeric_prerelease_components.components
        IN  /\ Len(found) = Cardinality(counted)
            /\ \A n \in 1..Len(found) :
                   /\ found[n][1] + 1 \in counted
                   /\ found[n][2] = identifiers[found[n][1] + 1]
                   /\ found[n][3] = number_at_end(found[n][2])
            /\ \A m, n \in 1..Len(found) : m < n => found[m][1] < found[n][1]
            /\ parsed.version.prerelease = None => found = <<>>

\* RC-SNAPSHOT.12.dev1 has the components (1, 12, 12) and (2, dev1, 1)
C29_Witness ==
    /\ numeric_prerelease_components.status = "returned"
    /\ parsed.version.prerelease
           = <<"R", "C", "-", "S", "N", "A", "P", "S", "H", "O", "T", ".", "1", "2", ".", "d", "e", "v", "1">>
    /\ numeric_prerelease_components.components
           = << <<1, <<"1", "2">>, 12>>, <<2, <<"d", "e", "v", "1">>, 1>> >>

=============================================================================
